---- MODULE Spec2Model ----
(***************************************************************************)
(* A model of libpafe: the FeliCa wire frame codec, the response decoders  *)
(* and the type-state device handle.                                       *)
(*                                                                         *)
(* Bytes are the integers 0..255 and every byte computation wraps modulo   *)
(* 256 as the u8 arithmetic of the source does.  A Rust slice index i      *)
(* (0-based) is the TLA+ sequence index i+1.  A Result<T> is a record      *)
(* with a tag: "Ok" carries val, an error carries its fields, and "Panic"  *)
(* stands for an index out of bounds or an arithmetic overflow.            *)
(***************************************************************************)
EXTENDS Integers, Sequences, FiniteSets, TLC

VARIABLES
    fPayload,   \* frame harness: the payload last handed to Frame::encode
    fEnc,       \* frame harness: the result of that Frame::encode
    fWire,      \* frame harness: the byte buffer on the wire
    fKind,      \* frame harness: how fWire was obtained
    fEdits,     \* frame harness: number of edits applied to fWire
    fDec,       \* frame harness: the result of Frame::decode(fWire)
    rData,      \* response harness: the response payload received
    rKind,      \* response harness: how rData was obtained
    rCmd,       \* response harness: the expected command code
    rRes,       \* response harness: the result of Response::decode(rCmd, rData)
    rFrRes,     \* response harness: decode_response_frame on the framing of rData
    devState,   \* device handle: "Uninitialized", "Initialized" or "Released"
    devType,    \* device handle: the DeviceType cached by new_with_transport
    transport,  \* device handle: the transport the handle owns
    transport0, \* device handle: the transport as it was handed to the handle
    devRes,     \* device handle: the result of the last call on the handle
    devInits,   \* device handle: number of initialize calls made on the handle
    devCalls,   \* device handle: the calls made on the handle, oldest first
    devArgs,    \* device handle: the argument of each call of devCalls
    devPre,     \* device handle: the transport as the last call found it
    linkTags,   \* link: for each queued read, the call whose command it answers
    linkLate,   \* link: the reads the device has yet to deliver, oldest first
    linkTaken,  \* link: for each execute, the tags of the reads it consumed
    xRaw,       \* extractor harness: the bytes of a device reply
    xPieces,    \* extractor harness: the pieces xRaw was put together from
    xCmd,       \* extractor harness: the expected command code, -1 before a call
    xFrames,    \* extractor harness: extract_all_felica_frames_from_pn532_response
    xFrame,     \* extractor harness: extract_felica_from_pn532_response
    xCards,     \* extractor harness: list_passive_targets on a reply of xRaw
    hCall,      \* model hooks: the hook of the device model last called
    hArgs,      \* model hooks: the arguments of that call
    hOut,       \* model hooks: what the call returned
    cCard,      \* card: the Card the helpers are called on
    cIter,      \* card: the ServiceIterator borrowing the handle, if any
    cItems,     \* card: what the calls of next() returned, oldest first
    mOut        \* transport harness: the result of each call of devCalls

frameVars == <<fPayload, fEnc, fWire, fKind, fEdits, fDec>>

respVars == <<rData, rKind, rCmd, rRes, rFrRes>>

devVars ==
    <<devState, devType, transport, transport0, devRes, devInits, devCalls,
      devArgs, devPre>>

linkVars == <<linkTags, linkLate, linkTaken>>

extVars == <<xRaw, xPieces, xCmd, xFrames, xFrame, xCards>>

hookVars == <<hCall, hArgs, hOut>>

cardVars == <<cCard, cIter, cItems>>

moreVars == <<hookVars, cardVars, mOut>>

vars == <<frameVars, respVars, devVars, linkVars, extVars, moreVars>>

-----------------------------------------------------------------------------
(* Bounds of the model *)

MaxPayloadLen == 2
MaxEdits == 2

(* Program constants *)

FELICA_MIN_FRAME_LEN == 7
FELICA_MAX_PAYLOAD_LEN == 255
FELICA_POSTAMBLE == 0
FELICA_PREAMBLE == <<0, 0, 255>>

Byte == 0..255

(* Byte values the harness builds inputs from *)
SampleBytes == {0, 1, 255}

-----------------------------------------------------------------------------
(* Result values (error.rs) *)

NoResult ==
    [tag |-> "None", expected |-> 0, actual |-> 0, index |-> 0,
     status1 |-> 0, status2 |-> 0, msg |-> "", val |-> <<>>]

None == NoResult

Ok(v) == [NoResult EXCEPT !.tag = "Ok", !.val = v]

InvalidLength(e, a) ==
    [NoResult EXCEPT !.tag = "InvalidLength", !.expected = e, !.actual = a]

ChecksumMismatch(e, a) ==
    [NoResult EXCEPT !.tag = "ChecksumMismatch", !.expected = e, !.actual = a]

FrameFormat(m) == [NoResult EXCEPT !.tag = "FrameFormat", !.msg = m]

UnexpectedResponse(e, a) ==
    [NoResult EXCEPT !.tag = "UnexpectedResponse", !.expected = e, !.actual = a]

FelicaStatus(s1, s2) ==
    [NoResult EXCEPT !.tag = "FelicaStatus", !.status1 = s1, !.status2 = s2]

FelicaBlockStatus(i, s1, s2) ==
    [NoResult EXCEPT !.tag = "FelicaBlockStatus", !.index = i,
                     !.status1 = s1, !.status2 = s2]

UnsupportedOperation(m) == [NoResult EXCEPT !.tag = "UnsupportedOperation", !.msg = m]

(* A panic: an index out of bounds or an arithmetic overflow. *)
Panic == [NoResult EXCEPT !.tag = "Panic"]

(* Slice helpers: s[i] with a 0-based index, and s[from..to) *)
HasIndex(s, i) == i >= 0 /\ i < Len(s)

At(s, i) == s[i + 1]

Slice(s, from, to) == [k \in 1..(to - from) |-> s[from + k]]

-----------------------------------------------------------------------------
(* protocol/checksum.rs *)

lcs(len) == (256 - len) % 256

(* fold(0u8, wrapping_add) over s[lo..hi]: addition modulo 256 is          *)
(* associative, so the fold is evaluated by halves to keep the evaluation  *)
(* depth logarithmic in the length.                                        *)
RECURSIVE WrapSum(_, _, _)
WrapSum(s, lo, hi) ==
    IF lo > hi THEN 0
    ELSE IF lo = hi THEN s[lo] % 256
    ELSE LET mid == (lo + hi) \div 2
         IN  (WrapSum(s, lo, mid) + WrapSum(s, mid + 1, hi)) % 256

(* Mutant: the complement of the sum, not its negation. *)
dcs_OnesComplement(payload) == 255 - WrapSum(payload, 1, Len(payload))

dcs(payload) == (256 - WrapSum(payload, 1, Len(payload))) % 256

-----------------------------------------------------------------------------
(* protocol/frame.rs *)

(* Mutant: the length byte is written where its checksum belongs. *)
Frame_encode_NoLcs(payload) ==
    IF Len(payload) > 255
    THEN InvalidLength(255, Len(payload))
    ELSE Ok(FELICA_PREAMBLE \o <<Len(payload), Len(payload)>> \o payload
            \o <<dcs(payload), FELICA_POSTAMBLE>>)

(* Mutant: the length limit is off by one (>= instead of >). *)
Frame_encode_OffByOne(payload) ==
    IF Len(payload) >= 255
    THEN InvalidLength(255, Len(payload))
    ELSE Ok(FELICA_PREAMBLE \o <<Len(payload), lcs(Len(payload))>> \o payload
            \o <<dcs(payload), FELICA_POSTAMBLE>>)

Frame_encode(payload) ==
    IF Len(payload) > 255
    THEN InvalidLength(255, Len(payload))
    ELSE LET len == Len(payload) % 256
         IN  Ok(FELICA_PREAMBLE \o <<len, lcs(len)>> \o payload
                \o <<dcs(payload), FELICA_POSTAMBLE>>)

(* Mutant: the length-consistency check is made before the LCS check. *)
Frame_decode_LenFirst(frame) ==
    IF Len(frame) < FELICA_MIN_FRAME_LEN
    THEN InvalidLength(FELICA_MIN_FRAME_LEN, Len(frame))
    ELSE IF <<At(frame, 0), At(frame, 1), At(frame, 2)>> # FELICA_PREAMBLE
    THEN FrameFormat("invalid preamble")
    ELSE LET len == At(frame, 3)
             payload_end == 5 + len
         IN  IF Len(frame) # 7 + len
             THEN InvalidLength(7 + len, Len(frame))
             ELSE IF At(frame, 4) # lcs(len)
             THEN ChecksumMismatch(lcs(len), At(frame, 4))
             ELSE IF At(frame, payload_end) # dcs(Slice(frame, 5, payload_end))
             THEN ChecksumMismatch(dcs(Slice(frame, 5, payload_end)), At(frame, payload_end))
             ELSE IF At(frame, payload_end + 1) # FELICA_POSTAMBLE
             THEN FrameFormat("invalid postamble")
             ELSE Ok(Slice(frame, 5, payload_end))

(* Mutant: the data checksum is not verified. *)
Frame_decode_NoDcs(frame) ==
    IF Len(frame) < FELICA_MIN_FRAME_LEN
    THEN InvalidLength(FELICA_MIN_FRAME_LEN, Len(frame))
    ELSE IF <<At(frame, 0), At(frame, 1), At(frame, 2)>> # FELICA_PREAMBLE
    THEN FrameFormat("invalid preamble")
    ELSE LET len == At(frame, 3)
             payload_end == 5 + len
         IN  IF At(frame, 4) # lcs(len)
             THEN ChecksumMismatch(lcs(len), At(frame, 4))
             ELSE IF Len(frame) # 7 + len
             THEN InvalidLength(7 + len, Len(frame))
             ELSE IF At(frame, payload_end + 1) # FELICA_POSTAMBLE
             THEN FrameFormat("invalid postamble")
             ELSE Ok(Slice(frame, 5, payload_end))

(* Mutant: the postamble is not verified. *)
Frame_decode_AnyPostamble(frame) ==
    IF Len(frame) < FELICA_MIN_FRAME_LEN
    THEN InvalidLength(FELICA_MIN_FRAME_LEN, Len(frame))
    ELSE IF <<At(frame, 0), At(frame, 1), At(frame, 2)>> # FELICA_PREAMBLE
    THEN FrameFormat("invalid preamble")
    ELSE LET len == At(frame, 3)
             payload_end == 5 + len
         IN  IF At(frame, 4) # lcs(len)
             THEN ChecksumMismatch(lcs(len), At(frame, 4))
             ELSE IF Len(frame) # 7 + len
             THEN InvalidLength(7 + len, Len(frame))
             ELSE IF At(frame, payload_end) # dcs(Slice(frame, 5, payload_end))
             THEN ChecksumMismatch(dcs(Slice(frame, 5, payload_end)), At(frame, payload_end))
             ELSE Ok(Slice(frame, 5, payload_end))

Frame_decode(frame) ==
    IF Len(frame) < FELICA_MIN_FRAME_LEN
    THEN InvalidLength(FELICA_MIN_FRAME_LEN, Len(frame))
    ELSE IF ~HasIndex(frame, 2) THEN Panic
    ELSE IF \/ At(frame, 0) # FELICA_PREAMBLE[1]
            \/ At(frame, 1) # FELICA_PREAMBLE[2]
            \/ At(frame, 2) # FELICA_PREAMBLE[3]
    THEN FrameFormat("invalid preamble")
    ELSE IF ~HasIndex(frame, 4) THEN Panic
    ELSE LET len == At(frame, 3)
             lcs_actual == At(frame, 4)
             lcs_expected == lcs(len)
             required_len == 3 + 1 + 1 + len + 1 + 1
             payload_start == 5
             payload_end == payload_start + len
         IN  IF lcs_actual # lcs_expected
             THEN ChecksumMismatch(lcs_expected, lcs_actual)
             ELSE IF Len(frame) # required_len
             THEN InvalidLength(required_len, Len(frame))
             ELSE IF ~HasIndex(frame, payload_end) THEN Panic
             ELSE LET payload == Slice(frame, payload_start, payload_end)
                      dcs_actual == At(frame, payload_end)
                      dcs_expected == dcs(payload)
                  IN  IF dcs_actual # dcs_expected
                      THEN ChecksumMismatch(dcs_expected, dcs_actual)
                      ELSE IF ~HasIndex(frame, payload_end + 1) THEN Panic
                      ELSE IF At(frame, payload_end + 1) # FELICA_POSTAMBLE
                      THEN FrameFormat("invalid postamble")
                      ELSE Ok(payload)

-----------------------------------------------------------------------------
(* protocol/parser.rs and types.rs *)

(* Mutant: the comparison lets a slice one byte too short through. *)
ensure_len_OffByOne(data, min) ==
    IF Len(data) + 1 < min THEN InvalidLength(min, Len(data)) ELSE Ok(<<>>)

ensure_len(data, min) ==
    IF Len(data) < min THEN InvalidLength(min, Len(data)) ELSE Ok(<<>>)

le_u16_at(data, idx) ==
    LET e == ensure_len(data, idx + 2)
    IN  IF e.tag # "Ok" THEN e
        ELSE IF ~HasIndex(data, idx + 1) THEN Panic
        ELSE Ok(At(data, idx) + 256 * At(data, idx + 1))

slice_at(data, idx, len) ==
    LET e == ensure_len(data, idx + len)
    IN  IF e.tag # "Ok" THEN e
        ELSE IF len > 0 /\ ~HasIndex(data, idx + len - 1) THEN Panic
        ELSE Ok(Slice(data, idx, idx + len))

Idm_try_from(bytes) ==
    IF Len(bytes) # 8 THEN InvalidLength(8, Len(bytes)) ELSE Ok(bytes)

Pmm_try_from(bytes) ==
    IF Len(bytes) # 8 THEN InvalidLength(8, Len(bytes)) ELSE Ok(bytes)

idm_at(data, start) ==
    LET s == slice_at(data, start, 8)
    IN  IF s.tag # "Ok" THEN s ELSE Idm_try_from(s.val)

pmm_at(data, start) ==
    LET s == slice_at(data, start, 8)
    IN  IF s.tag # "Ok" THEN s ELSE Pmm_try_from(s.val)

byte_at(data, idx) ==
    LET e == ensure_len(data, idx + 1)
    IN  IF e.tag # "Ok" THEN e
        ELSE IF ~HasIndex(data, idx) THEN Panic
        ELSE Ok(At(data, idx))

(* Mutant: any response code is accepted. *)
expect_response_code_NoCheck(data, expected) ==
    IF Len(data) < 1 THEN InvalidLength(1, Len(data)) ELSE Ok(<<>>)

expect_response_code(data, expected) ==
    LET actual == byte_at(data, 0)
    IN  IF actual.tag # "Ok" THEN actual
        ELSE IF actual.val # expected THEN UnexpectedResponse(expected, actual.val)
        ELSE Ok(<<>>)

(* The `?` of a loop body: the first failure of rs, or the values of rs. *)
Collect(rs) ==
    IF \E i \in 1..Len(rs) : rs[i].tag # "Ok"
    THEN rs[CHOOSE i \in 1..Len(rs) :
                /\ rs[i].tag # "Ok"
                /\ \A j \in 1..(i - 1) : rs[j].tag = "Ok"]
    ELSE Ok([i \in 1..Len(rs) |-> rs[i].val])

-----------------------------------------------------------------------------
(* protocol/responses/*.rs: each decoder returns Ok of its tuple *)

decode_polling(data) ==
    LET e == ensure_len(data, 1 + 8 + 8 + 2)
        c == expect_response_code(data, 0 + 1)
        idm == idm_at(data, 1)
        pmm == pmm_at(data, 9)
        sys == le_u16_at(data, 17)
    IN  IF e.tag # "Ok" THEN e
        ELSE IF c.tag # "Ok" THEN c
        ELSE IF idm.tag # "Ok" THEN idm
        ELSE IF pmm.tag # "Ok" THEN pmm
        ELSE IF sys.tag # "Ok" THEN sys
        ELSE Ok([idm |-> idm.val, pmm |-> pmm.val, system_code |-> sys.val])

(* count little-endian u16 values from offset 10 *)
U16List(data, count) == Collect([i \in 1..count |-> le_u16_at(data, 10 + (i - 1) * 2)])

decode_request_service(data) ==
    LET e == ensure_len(data, 1 + 8 + 1)
        c == expect_response_code(data, 2 + 1)
        idm == idm_at(data, 1)
        count == byte_at(data, 9)
    IN  IF e.tag # "Ok" THEN e
        ELSE IF c.tag # "Ok" THEN c
        ELSE IF idm.tag # "Ok" THEN idm
        ELSE IF count.tag # "Ok" THEN count
        ELSE LET needed == 10 + count.val * 2
                 n == ensure_len(data, needed)
                 versions == U16List(data, count.val)
             IN  IF n.tag # "Ok" THEN n
                 ELSE IF versions.tag # "Ok" THEN versions
                 ELSE Ok([idm |-> idm.val, versions |-> versions.val])

decode_request_response(data) ==
    LET e == ensure_len(data, 1 + 8 + 1)
        c == expect_response_code(data, 4 + 1)
        idm == idm_at(data, 1)
        mode == byte_at(data, 9)
    IN  IF e.tag # "Ok" THEN e
        ELSE IF c.tag # "Ok" THEN c
        ELSE IF idm.tag # "Ok" THEN idm
        ELSE IF mode.tag # "Ok" THEN mode
        ELSE Ok([idm |-> idm.val, mode |-> mode.val])

decode_request_system_code(data) ==
    LET e == ensure_len(data, 1 + 8 + 1)
        c == expect_response_code(data, 12 + 1)
        idm == idm_at(data, 1)
        count == byte_at(data, 9)
    IN  IF e.tag # "Ok" THEN e
        ELSE IF c.tag # "Ok" THEN c
        ELSE IF idm.tag # "Ok" THEN idm
        ELSE IF count.tag # "Ok" THEN count
        ELSE LET needed == 10 + count.val * 2
                 n == ensure_len(data, needed)
                 codes == U16List(data, count.val)
             IN  IF n.tag # "Ok" THEN n
                 ELSE IF codes.tag # "Ok" THEN codes
                 ELSE Ok([idm |-> idm.val, system_codes |-> codes.val])

(* Mutant: a set present flag with the code bytes missing is read as absent. *)
decode_search_service_code_Lenient(data) ==
    IF Len(data) < 10 THEN InvalidLength(10, Len(data))
    ELSE IF At(data, 0) # 11 THEN UnexpectedResponse(11, At(data, 0))
    ELSE IF At(data, 9) = 0 \/ Len(data) < 12
    THEN Ok([idm |-> Slice(data, 1, 9), present |-> FALSE, code |-> 0])
    ELSE Ok([idm |-> Slice(data, 1, 9), present |-> TRUE,
             code |-> At(data, 10) + 256 * At(data, 11)])

(* Option<u16> is the pair (present, code) *)
decode_search_service_code(data) ==
    LET e == ensure_len(data, 1 + 8 + 1)
        c == expect_response_code(data, 11)
        idm == idm_at(data, 1)
        present_flag == byte_at(data, 9)
    IN  IF e.tag # "Ok" THEN e
        ELSE IF c.tag # "Ok" THEN c
        ELSE IF idm.tag # "Ok" THEN idm
        ELSE IF present_flag.tag # "Ok" THEN present_flag
        ELSE IF present_flag.val = 0
        THEN Ok([idm |-> idm.val, present |-> FALSE, code |-> 0])
        ELSE LET n == ensure_len(data, 1 + 8 + 1 + 2)
                 code == le_u16_at(data, 10)
             IN  IF n.tag # "Ok" THEN n
                 ELSE IF code.tag # "Ok" THEN code
                 ELSE Ok([idm |-> idm.val, present |-> TRUE, code |-> code.val])

(* Mutant: the blocks that are present are returned when some are missing. *)
decode_read_Partial(data) ==
    IF Len(data) < 12 THEN InvalidLength(12, Len(data))
    ELSE IF At(data, 0) # 7 THEN UnexpectedResponse(7, At(data, 0))
    ELSE IF At(data, 9) # 0 \/ At(data, 10) # 0
    THEN FelicaStatus(At(data, 9), At(data, 10))
    ELSE LET have == (Len(data) - 12) \div 16
             n == IF have < At(data, 11) THEN have ELSE At(data, 11)
         IN  Ok([idm |-> Slice(data, 1, 9), status |-> <<0, 0>>,
                 blocks |-> [i \in 1..n |-> Slice(data, 12 + (i - 1) * 16, 12 + i * 16)]])

decode_read(data) ==
    LET e == ensure_len(data, 1 + 8 + 1 + 1 + 1)
        c == expect_response_code(data, 6 + 1)
        idm == idm_at(data, 1)
        status1 == byte_at(data, 9)
        status2 == byte_at(data, 10)
        block_count == byte_at(data, 11)
    IN  IF e.tag # "Ok" THEN e
        ELSE IF c.tag # "Ok" THEN c
        ELSE IF idm.tag # "Ok" THEN idm
        ELSE IF status1.tag # "Ok" THEN status1
        ELSE IF status2.tag # "Ok" THEN status2
        ELSE IF status1.val # 0 \/ status2.val # 0
        THEN FelicaStatus(status1.val, status2.val)
        ELSE IF block_count.tag # "Ok" THEN block_count
        ELSE LET needed_len == 12 + block_count.val * 16
                 n == ensure_len(data, needed_len)
                 blocks == Collect([i \in 1..block_count.val |->
                                        slice_at(data, 12 + (i - 1) * 16, 16)])
             IN  IF n.tag # "Ok" THEN n
                 ELSE IF blocks.tag # "Ok" THEN blocks
                 ELSE Ok([idm |-> idm.val,
                          status |-> <<status1.val, status2.val>>,
                          blocks |-> blocks.val])

(* The first (lowest index) non-zero status pair, 1-based; 0 when none. *)
FirstNonZero(statuses) ==
    IF \E i \in 1..Len(statuses) : statuses[i] # <<0, 0>>
    THEN CHOOSE i \in 1..Len(statuses) :
            /\ statuses[i] # <<0, 0>>
            /\ \A j \in 1..(i - 1) : statuses[j] = <<0, 0>>
    ELSE 0

(* Mutant: a non-zero pair is always reported in the single-block form. *)
decode_write_SingleForm(data) ==
    IF Len(data) < 11 \/ (Len(data) - 9) % 2 # 0 THEN InvalidLength(11, Len(data))
    ELSE IF At(data, 0) # 9 THEN UnexpectedResponse(9, At(data, 0))
    ELSE LET statuses == [i \in 1..((Len(data) - 9) \div 2) |->
                            <<At(data, 9 + (i - 1) * 2), At(data, 10 + (i - 1) * 2)>>]
             k == FirstNonZero(statuses)
         IN  IF k # 0 THEN FelicaStatus(statuses[k][1], statuses[k][2])
             ELSE Ok([idm |-> Slice(data, 1, 9), statuses |-> statuses])

decode_write(data) ==
    LET e == ensure_len(data, 1 + 8 + 2)
        c == expect_response_code(data, 8 + 1)
        idm == idm_at(data, 1)
        remaining == IF Len(data) >= 9 THEN Len(data) - 9 ELSE 0
    IN  IF e.tag # "Ok" THEN e
        ELSE IF c.tag # "Ok" THEN c
        ELSE IF idm.tag # "Ok" THEN idm
        ELSE IF remaining < 2 \/ remaining % 2 # 0
        THEN InvalidLength(1 + 8 + 2, Len(data))
        ELSE LET count == remaining \div 2
                 s1 == Collect([i \in 1..count |-> byte_at(data, 9 + (i - 1) * 2)])
                 s2 == Collect([i \in 1..count |-> byte_at(data, 9 + (i - 1) * 2 + 1)])
             IN  IF s1.tag # "Ok" THEN s1
                 ELSE IF s2.tag # "Ok" THEN s2
                 ELSE LET statuses == [i \in 1..count |-> <<s1.val[i], s2.val[i]>>]
                          k == FirstNonZero(statuses)
                      IN  IF k # 0
                          THEN IF Len(statuses) = 1
                               THEN FelicaStatus(statuses[k][1], statuses[k][2])
                               ELSE FelicaBlockStatus(k - 1, statuses[k][1],
                                                      statuses[k][2])
                          ELSE Ok([idm |-> idm.val, statuses |-> statuses])

-----------------------------------------------------------------------------
(* protocol/responses/mod.rs and protocol/codec.rs *)

(* A decoder's tuple becomes the Response variant named kind. *)
ToResponse(kind, r) ==
    IF r.tag # "Ok" THEN r ELSE Ok([kind |-> kind, fields |-> r.val])

Response_decode(expected_cmd, data) ==
    LET e == ensure_len(data, 1)
        expected_response == (expected_cmd + 1) % 256
        c == expect_response_code(data, expected_response)
    IN  IF e.tag # "Ok" THEN e
        ELSE IF c.tag # "Ok" THEN c
        ELSE CASE expected_cmd = 0 -> ToResponse("Polling", decode_polling(data))
               [] expected_cmd = 6 ->
                    ToResponse("ReadWithoutEncryption", decode_read(data))
               [] expected_cmd = 8 ->
                    ToResponse("WriteWithoutEncryption", decode_write(data))
               [] expected_cmd = 2 ->
                    ToResponse("RequestService", decode_request_service(data))
               [] expected_cmd = 4 ->
                    ToResponse("RequestResponse", decode_request_response(data))
               [] expected_cmd = 12 ->
                    ToResponse("RequestSystemCode", decode_request_system_code(data))
               [] expected_cmd = 10 ->
                    ToResponse("SearchServiceCode", decode_search_service_code(data))
               [] OTHER ->
                    \* `expected_cmd + 1` is a plain u8 addition: with overflow
                    \* checks (the dev and test profiles) 0xFF + 1 panics.
                    IF expected_cmd + 1 > 255 THEN Panic
                    ELSE UnexpectedResponse(expected_cmd + 1,
                                            IF Len(data) > 0 THEN At(data, 0) ELSE 0)

decode_response_frame(expected_cmd, frame) ==
    LET payload == Frame_decode(frame)
    IN  IF payload.tag # "Ok" THEN payload
        ELSE Response_decode(expected_cmd, payload.val)

-----------------------------------------------------------------------------
(* The frame harness: a caller that encodes a payload, lets the wire alter *)
(* the frame, and decodes what arrives.                                    *)

RECURSIVE SeqsUpTo(_, _)
SeqsUpTo(S, n) ==
    IF n = 0 THEN {<<>>}
    ELSE LET shorter == SeqsUpTo(S, n - 1)
         IN  shorter \cup {Append(s, b) : s \in shorter, b \in S}

Fill(b, n) == [k \in 1..n |-> b]

(* Short payloads over the sample bytes, and payloads at and just past the *)
(* maximum length.                                                         *)
Payloads ==
    SeqsUpTo(SampleBytes, MaxPayloadLen)
    \cup {Fill(1, FELICA_MAX_PAYLOAD_LEN), Fill(1, FELICA_MAX_PAYLOAD_LEN + 1)}

FrameIdle ==
    /\ fPayload = <<>>
    /\ fEnc = None
    /\ fWire = <<>>
    /\ fKind = "empty"
    /\ fEdits = 0
    /\ fDec = None

RespIdle ==
    /\ rData = <<>>
    /\ rKind = "none"
    /\ rCmd = 0
    /\ rRes = None
    /\ rFrRes = None

(* MockTransport::new: nothing sent, nothing queued, nothing recorded.  The
   fields faults and log are the model's own: faults is the set of ordinals of
   the transport calls that fail (a Transport method returns a Result and a
   real link may fail any call), log is the names of the calls made so far.   *)
MockTransport_new ==
    [sent |-> <<>>, responses |-> <<>>, control_failures |-> 0, vendor_calls |-> <<>>,
     vendor_reads |-> <<>>, faults |-> {}, log |-> <<>>]

DevIdle ==
    /\ devState = "Uninitialized"
    /\ devType = "S310"
    /\ transport = MockTransport_new
    /\ transport0 = MockTransport_new
    /\ devRes = None
    /\ devInits = 0
    /\ devCalls = <<>>
    /\ devArgs = <<>>
    /\ devPre = MockTransport_new

LinkIdle ==
    /\ linkTags = <<>>
    /\ linkLate = <<>>
    /\ linkTaken = <<>>

HookIdle ==
    /\ hCall = "none"
    /\ hArgs = <<>>
    /\ hOut = <<>>

CardIdle ==
    /\ cCard = None
    /\ cIter = None
    /\ cItems = <<>>

MockIdle == mOut = <<>>

MoreIdle == HookIdle /\ CardIdle /\ MockIdle

ExtIdle ==
    /\ xRaw = <<>>
    /\ xPieces = <<>>
    /\ xCmd = -1
    /\ xFrames = <<>>
    /\ xFrame = None
    /\ xCards = None

(* The caller encodes a payload; a frame, when produced, goes on the wire. *)
EncodeFrame ==
    /\ fKind = "empty"
    /\ \E p \in Payloads :
        /\ fPayload' = p
        /\ fEnc' = Frame_encode(p)
        /\ fWire' = IF Frame_encode(p).tag = "Ok" THEN Frame_encode(p).val ELSE <<>>
        /\ fKind' = IF Frame_encode(p).tag = "Ok" THEN "encoded" ELSE "refused"
    /\ fDec' = None
    /\ UNCHANGED <<fEdits, respVars, devVars, linkVars, extVars, moreVars>>

(* The replacement values tried on a byte: every byte value on the frame   *)
(* of a short payload; the sample bytes and the two neighbours of the old  *)
(* value on the frame of a long one.                                       *)
TamperValues(p, old) ==
    IF Len(p) <= MaxPayloadLen
    THEN Byte
    ELSE SampleBytes \cup {(old + 1) % 256, (old + 255) % 256}

(* Exactly one byte of the encoded frame is replaced by a different value. *)
TamperByte ==
    /\ fKind = "encoded"
    /\ fDec = None
    /\ \E i \in 1..Len(fWire) : \E v \in TamperValues(fPayload, fWire[i]) :
        /\ v # fWire[i]
        /\ fWire' = [fWire EXCEPT ![i] = v]
    /\ fKind' = "tampered"
    /\ fEdits' = 1
    /\ UNCHANGED <<fPayload, fEnc, fDec, respVars, devVars, linkVars, extVars, moreVars>>

(* Arbitrary damage: bytes overwritten, dropped or appended. *)
Damage ==
    /\ fKind \in {"encoded", "damaged"}
    /\ fDec = None
    /\ fEdits < MaxEdits
    /\ Len(fPayload) <= MaxPayloadLen
    /\ \/ \E i \in 1..Len(fWire), v \in SampleBytes : fWire' = [fWire EXCEPT ![i] = v]
       \/ Len(fWire) > 0 /\ fWire' = SubSeq(fWire, 1, Len(fWire) - 1)
       \/ Len(fWire) > 0 /\ fWire' = Tail(fWire)
       \/ \E v \in SampleBytes : fWire' = Append(fWire, v)
    /\ fKind' = "damaged"
    /\ fEdits' = fEdits + 1
    /\ UNCHANGED <<fPayload, fEnc, fDec, respVars, devVars, linkVars, extVars, moreVars>>

(* The receiver decodes whatever is on the wire. *)
DecodeFrame ==
    /\ fKind \in {"encoded", "tampered", "damaged"}
    /\ fDec = None
    /\ fDec' = Frame_decode(fWire)
    /\ UNCHANGED <<fPayload, fEnc, fWire, fKind, fEdits, respVars, devVars, linkVars, extVars, moreVars>>

FrameNext == EncodeFrame \/ TamperByte \/ Damage \/ DecodeFrame

FrameInit == FrameIdle /\ RespIdle /\ DevIdle /\ LinkIdle /\ ExtIdle /\ MoreIdle

SpecFrame == FrameInit /\ [][FrameNext]_vars

-----------------------------------------------------------------------------
(* Properties of the frame codec *)

FrameDecoded == fDec.tag # "None"

(* The faults of a buffer, stated on its bytes. *)
TooShort(b) == Len(b) < 7

BadPreamble(b) == Len(b) >= 3 /\ (b[1] # 0 \/ b[2] # 0 \/ b[3] # 255)

LcsWrong(b) == Len(b) >= 5 /\ (b[4] + b[5]) % 256 # 0

LenMismatch(b) == Len(b) >= 4 /\ Len(b) # 7 + b[4]

DcsWrong(b) ==
    /\ ~TooShort(b)
    /\ ~LenMismatch(b)
    /\ (WrapSum(b, 6, Len(b) - 2) + b[Len(b) - 1]) % 256 # 0

BadPostamble(b) == Len(b) >= 1 /\ b[Len(b)] # 0

(* C1: for every payload p of length 0..255, Frame::encode(p) succeeds and *)
(* Frame::decode of the frame it produced succeeds and returns exactly p.  *)
C1_FrameRoundTrip ==
    /\ (fKind # "empty" /\ Len(fPayload) <= 255) => fEnc.tag = "Ok"
    /\ (fKind = "encoded" /\ FrameDecoded) =>
            (fDec.tag = "Ok" /\ fDec.val = fPayload)

C1_Witness ==
    /\ fKind = "encoded"
    /\ Len(fPayload) = 255
    /\ fDec.tag = "Ok"

(* C2: Frame::decode returns a payload only when every check passes;       *)
(* otherwise it fails with FrameFormat on a bad preamble or postamble,     *)
(* InvalidLength on a buffer shorter than 7 bytes or of a length other     *)
(* than 7+LEN, ChecksumMismatch on a wrong LCS or DCS; the checks are made *)
(* in the order length >= 7, preamble, LCS, length = 7+LEN, DCS,           *)
(* postamble, so a wrong LCS is reported before the length is compared     *)
(* and before a payload byte is read.                                      *)
C2_DecodeErrors ==
    FrameDecoded =>
        LET b == fWire
            t == fDec.tag
        IN  /\ t \in {"Ok", "FrameFormat", "InvalidLength", "ChecksumMismatch"}
            /\ (t = "Ok") <=>
                    ~(\/ TooShort(b) \/ BadPreamble(b) \/ LcsWrong(b)
                      \/ LenMismatch(b) \/ DcsWrong(b) \/ BadPostamble(b))
            /\ (t = "Ok") => fDec.val = SubSeq(b, 6, Len(b) - 2)
            /\ (t = "FrameFormat") => (BadPreamble(b) \/ BadPostamble(b))
            /\ (t = "InvalidLength") => (TooShort(b) \/ LenMismatch(b))
            /\ (t = "ChecksumMismatch") => (LcsWrong(b) \/ DcsWrong(b))
            /\ TooShort(b) => t = "InvalidLength"
            /\ (~TooShort(b) /\ BadPreamble(b)) => t = "FrameFormat"
            /\ (~TooShort(b) /\ ~BadPreamble(b) /\ LcsWrong(b)) =>
                    t = "ChecksumMismatch"
            /\ (~TooShort(b) /\ ~BadPreamble(b) /\ ~LcsWrong(b) /\ LenMismatch(b)) =>
                    t = "InvalidLength"
            /\ (~BadPreamble(b) /\ ~LcsWrong(b) /\ DcsWrong(b)) =>
                    t = "ChecksumMismatch"

(* A buffer whose LCS is wrong and whose length is inconsistent as well.   *)
C2_Witness ==
    /\ FrameDecoded
    /\ ~TooShort(fWire) /\ ~BadPreamble(fWire)
    /\ LcsWrong(fWire) /\ LenMismatch(fWire)
    /\ fDec.tag = "ChecksumMismatch"

(* C3: for every payload and every position of its encoded frame,          *)
(* replacing the byte there by any different value makes Frame::decode     *)
(* fail with ChecksumMismatch or FrameFormat; no payload is returned.      *)
C3_TamperDetected ==
    (fKind = "tampered" /\ FrameDecoded) =>
        fDec.tag \in {"ChecksumMismatch", "FrameFormat"}

(* A payload byte of a maximum-length frame was replaced. *)
C3_Witness ==
    /\ fKind = "tampered"
    /\ FrameDecoded
    /\ Len(fPayload) = 255
    /\ \E i \in 6..(Len(fWire) - 2) : fWire[i] # fEnc.val[i]
    /\ fDec.tag = "ChecksumMismatch"

(* C4: Frame::encode(p) with N = len(p) <= 255 returns exactly             *)
(* 00 00 FF, N, LCS(N), p, DCS(p), 00 (7+N bytes); with N > 255 it fails   *)
(* with InvalidLength and produces no frame.                               *)
C4_EncodeLayout ==
    fKind # "empty" =>
        LET N == Len(fPayload)
            f == fEnc.val
        IN  IF N <= 255
            THEN /\ fEnc.tag = "Ok"
                 /\ Len(f) = 7 + N
                 /\ \A i \in 1..Len(f) : f[i] \in Byte
                 /\ f[1] = 0 /\ f[2] = 0 /\ f[3] = 255
                 /\ f[4] = N
                 /\ (f[5] + N) % 256 = 0
                 /\ SubSeq(f, 6, 5 + N) = fPayload
                 /\ (f[6 + N] + WrapSum(fPayload, 1, N)) % 256 = 0
                 /\ f[7 + N] = 0
            ELSE /\ fEnc.tag = "InvalidLength"
                 /\ fKind = "refused"
                 /\ fWire = <<>>

C4_Witness ==
    /\ fKind = "refused"
    /\ Len(fPayload) = 256
    /\ fEnc.tag = "InvalidLength"

-----------------------------------------------------------------------------
(* The response harness: a card answers with a response payload, the link  *)
(* may mangle it once, and the host decodes it for an expected command.    *)

MaxCount == 2

SupportedCmds == {0, 2, 4, 6, 8, 10, 12}

SampleIdm == <<1, 2, 3, 4, 5, 6, 7, 8>>

SamplePmm == <<9, 10, 11, 12, 13, 14, 15, 16>>

RECURSIVE Flatten(_)
Flatten(ss) == IF ss = <<>> THEN <<>> ELSE Head(ss) \o Flatten(Tail(ss))

(* n two-byte codes 01 10, 02 20, ... and n blocks of 16 bytes 41.., 42.. *)
CodeBytes(n) == Flatten([i \in 1..n |-> <<i, 16 * i>>])

BlockBytes(n) == Flatten([i \in 1..n |-> Fill(64 + i, 16)])

StatusPairs == {<<0, 0>>, <<164, 0>>, <<0, 1>>}

ResponseTemplates ==
    {<<>>}
    \cup {<<1>> \o SampleIdm \o SamplePmm \o <<11, 10>>}
    \cup {<<3>> \o SampleIdm \o <<n>> \o CodeBytes(n) : n \in 0..MaxCount}
    \cup {<<5>> \o SampleIdm \o <<1>>}
    \cup {<<7>> \o SampleIdm \o st \o <<n>> \o BlockBytes(n) :
            st \in StatusPairs, n \in 0..MaxCount}
    \cup {<<9>> \o SampleIdm \o Flatten(ps) : ps \in SeqsUpTo(StatusPairs, MaxCount)}
    \cup {<<11>> \o SampleIdm \o <<f>> \o c : f \in {0, 1, 2}, c \in {<<>>, <<52, 18>>}}
    \cup {<<13>> \o SampleIdm \o <<n>> \o CodeBytes(n) : n \in 0..MaxCount}

RespInit == FrameIdle /\ RespIdle /\ DevIdle /\ LinkIdle /\ ExtIdle /\ MoreIdle

(* The card's answer arrives. *)
ReceiveResponse ==
    /\ rKind = "none"
    /\ rData' \in ResponseTemplates
    /\ rKind' = "received"
    /\ UNCHANGED <<rCmd, rRes, rFrRes, frameVars, devVars, linkVars, extVars, moreVars>>

(* The link cuts the payload short, overwrites one byte or adds one. *)
MangleResponse ==
    /\ rKind = "received"
    /\ rRes = None
    /\ \/ \E k \in 0..(Len(rData) - 1) : rData' = SubSeq(rData, 1, k)
       \/ \E i \in 1..Len(rData), v \in SampleBytes :
            /\ v # rData[i]
            /\ rData' = [rData EXCEPT ![i] = v]
       \/ \E v \in SampleBytes : rData' = Append(rData, v)
    /\ rKind' = "mangled"
    /\ UNCHANGED <<rCmd, rRes, rFrRes, frameVars, devVars, linkVars, extVars, moreVars>>

(* The host decodes the payload, and its framing, for an expected command. *)
DecodeResponse ==
    /\ rKind \in {"received", "mangled"}
    /\ rRes = None
    /\ \E cmd \in SupportedCmds :
        /\ rCmd' = cmd
        /\ rRes' = Response_decode(cmd, rData)
        /\ rFrRes' = IF Frame_encode(rData).tag = "Ok"
                     THEN decode_response_frame(cmd, Frame_encode(rData).val)
                     ELSE Frame_encode(rData)
    /\ UNCHANGED <<rData, rKind, frameVars, devVars, linkVars, extVars, moreVars>>

RespNext == ReceiveResponse \/ MangleResponse \/ DecodeResponse

SpecResp == RespInit /\ [][RespNext]_vars

-----------------------------------------------------------------------------
(* Properties of the response decoders *)

RespDecoded == rRes.tag # "None"

(* The payload carries the response code of the expected command. *)
RightCode == Len(rData) >= 1 /\ rData[1] = rCmd + 1

(* C5, as claimed: for each supported command code, Response::decode fails *)
(* with UnexpectedResponse (expected = expected_cmd+1, actual = the first  *)
(* byte) whenever the payload is empty or its first byte differs from      *)
(* expected_cmd+1.                                                         *)
C5_Original ==
    (RespDecoded /\ ~RightCode) =>
        /\ rRes.tag = "UnexpectedResponse"
        /\ rRes.expected = rCmd + 1
        /\ Len(rData) >= 1 => rRes.actual = rData[1]

(* C5, amended: a non-empty payload whose first byte differs from          *)
(* expected_cmd+1 fails with UnexpectedResponse carrying expected_cmd+1    *)
(* and that byte; an empty payload fails with InvalidLength (expected 1,   *)
(* actual 0); in both cases no decoder result is returned.                 *)
C5_WrongCode ==
    (RespDecoded /\ ~RightCode) =>
        IF Len(rData) = 0
        THEN rRes = InvalidLength(1, 0)
        ELSE rRes = UnexpectedResponse(rCmd + 1, rData[1])

(* A payload that is a complete response to another command. *)
C5_Witness ==
    /\ RespDecoded
    /\ rCmd = 4
    /\ rData = <<7>> \o SampleIdm \o <<0, 0, 0>>
    /\ rRes.tag = "UnexpectedResponse"

(* C6: for every supported command code and every payload, Response::decode *)
(* and decode_response_frame on the payload's framing end with a Response   *)
(* or an error value, never with a panic.                                   *)
C6_DecodeTotal ==
    RespDecoded =>
        /\ rRes.tag \in {"Ok", "InvalidLength", "UnexpectedResponse",
                         "FelicaStatus", "FelicaBlockStatus"}
        /\ rFrRes.tag \in {"Ok", "InvalidLength", "UnexpectedResponse",
                           "FelicaStatus", "FelicaBlockStatus"}
        /\ rFrRes.tag = rRes.tag

(* A payload cut one byte short of a declared u16 is refused, not indexed. *)
C6_Witness ==
    /\ RespDecoded
    /\ rCmd = 2
    /\ RightCode
    /\ Len(rData) = 11
    /\ rData[10] = 1
    /\ rRes.tag = "InvalidLength"
    /\ rFrRes.tag = "InvalidLength"

(* The status pairs of a Write response payload d, in order. *)
WritePairs(d) == [i \in 1..((Len(d) - 9) \div 2) |-> <<d[8 + 2 * i], d[9 + 2 * i]>>]

(* C7: a Write response with the right code: all pairs (0,0) gives the     *)
(* list of pairs in order; otherwise the error reports the lowest-index    *)
(* non-zero pair, as FelicaStatus when there is exactly one pair and as    *)
(* FelicaBlockStatus with the index when there are more; no pair or an odd *)
(* number of status bytes gives InvalidLength.                             *)
C7_WriteStatus ==
    (RespDecoded /\ rCmd = 8 /\ RightCode) =>
        IF Len(rData) < 11 \/ (Len(rData) - 9) % 2 # 0
        THEN rRes.tag = "InvalidLength"
        ELSE LET ps == WritePairs(rData)
                 bad == {i \in 1..Len(ps) : ps[i] # <<0, 0>>}
             IN  IF bad = {}
                 THEN /\ rRes.tag = "Ok"
                      /\ rRes.val.kind = "WriteWithoutEncryption"
                      /\ rRes.val.fields.idm = SubSeq(rData, 2, 9)
                      /\ rRes.val.fields.statuses = ps
                 ELSE LET k == CHOOSE i \in bad : \A j \in bad : i <= j
                      IN  IF Len(ps) = 1
                          THEN rRes = FelicaStatus(ps[1][1], ps[1][2])
                          ELSE rRes = FelicaBlockStatus(k - 1, ps[k][1], ps[k][2])

(* Two pairs, the second one non-zero: the block form with index 1. *)
C7_Witness ==
    /\ RespDecoded
    /\ rCmd = 8
    /\ rData = <<9>> \o SampleIdm \o <<0, 0, 164, 0>>
    /\ rRes = FelicaBlockStatus(1, 164, 0)

(* C8: a Read response with the right code and at least 12 bytes: a status *)
(* other than (0,0) gives FelicaStatus whatever follows; status (0,0) and  *)
(* block_count c gives exactly c blocks of 16 bytes in order from offset   *)
(* 12 when 12+16c bytes are present, and InvalidLength when fewer are.     *)
C8_ReadBlocks ==
    (RespDecoded /\ rCmd = 6 /\ RightCode /\ Len(rData) >= 12) =>
        IF rData[10] # 0 \/ rData[11] # 0
        THEN rRes = FelicaStatus(rData[10], rData[11])
        ELSE LET c == rData[12]
             IN  IF Len(rData) >= 12 + 16 * c
                 THEN /\ rRes.tag = "Ok"
                      /\ rRes.val.kind = "ReadWithoutEncryption"
                      /\ rRes.val.fields.idm = SubSeq(rData, 2, 9)
                      /\ rRes.val.fields.status = <<0, 0>>
                      /\ Len(rRes.val.fields.blocks) = c
                      /\ \A i \in 1..c :
                            rRes.val.fields.blocks[i] =
                                SubSeq(rData, 12 + 16 * (i - 1) + 1, 12 + 16 * i)
                 ELSE rRes.tag = "InvalidLength"

(* Two blocks declared, fewer than 32 block bytes present. *)
C8_Witness ==
    /\ RespDecoded
    /\ rCmd = 6
    /\ RightCode
    /\ Len(rData) >= 12 + 16
    /\ rData[10] = 0 /\ rData[11] = 0
    /\ rData[12] = 2
    /\ Len(rData) < 12 + 32
    /\ rRes.tag = "InvalidLength"

(* The length the payload d declares for a response to cmd: the fixed      *)
(* fields, 2 bytes per counted element, the 2-byte code when the present   *)
(* flag is set.                                                            *)
DeclaredLen(cmd, d) ==
    CASE cmd = 0 -> 19
      [] cmd = 4 -> 10
      [] cmd \in {2, 12} -> IF Len(d) < 10 THEN 10 ELSE 10 + 2 * d[10]
      [] cmd = 10 -> IF Len(d) < 10 THEN 10 ELSE IF d[10] # 0 THEN 12 ELSE 10

(* C9: for Polling, RequestService, RequestResponse, SearchServiceCode and *)
(* RequestSystemCode responses with the right code, a payload shorter than *)
(* its declared shape gives InvalidLength, never a result.                 *)
C9_ShortIsInvalidLength ==
    (RespDecoded /\ rCmd \in {0, 2, 4, 10, 12} /\ RightCode
        /\ Len(rData) < DeclaredLen(rCmd, rData)) =>
            rRes.tag = "InvalidLength"

(* The present flag is set and the code is missing. *)
C9_Witness ==
    /\ RespDecoded
    /\ rCmd = 10
    /\ RightCode
    /\ Len(rData) \in {10, 11}
    /\ rData[10] # 0
    /\ rRes.tag = "InvalidLength"

-----------------------------------------------------------------------------
(* Transport: the Transport trait as MockTransport implements it.  Every
   operation takes the transport t and returns [t |-> transport afterwards,
   r |-> the Result].  An operation whose ordinal is in t.faults fails with a
   link error and has no other effect.                                        *)

ATTEMPTS == 2

INIT_ATTEMPTS == 3

PN532_CMD_PREFIX_DEVICE == 213

PN532_RESP_INLIST_PASSIVE_TARGET == 75

INIT_CMD == <<84>>

INIT1 == <<92, 1>>

INIT2 == <<92, 2>>

RCS956_RF_ON == <<212, 50, 1, 1>>

RCS956_GET_VERSION == <<212, 2>>

Timeout == [NoResult EXCEPT !.tag = "Timeout"]

PollingFailed == [NoResult EXCEPT !.tag = "PollingFailed"]

UsbError == [NoResult EXCEPT !.tag = "Usb"]

Some(v) == [NoResult EXCEPT !.tag = "Some", !.val = v]

IsOk(r) == r.tag = "Ok"

IsSome(r) == r.tag = "Some"

Logged(t, op) == [t EXCEPT !.log = Append(@, op)]

Faulty(t) == (Len(t.log) + 1) \in t.faults

send(t, data) ==
    IF Faulty(t) THEN [t |-> Logged(t, "send"), r |-> UsbError]
    ELSE [t |-> [Logged(t, "send") EXCEPT !.sent = Append(@, data)],
          r |-> Ok(<<>>)]

receive(t) ==
    IF Faulty(t) THEN [t |-> Logged(t, "receive"), r |-> UsbError]
    ELSE IF t.responses = <<>> THEN [t |-> Logged(t, "receive"), r |-> Timeout]
    ELSE [t |-> [Logged(t, "receive") EXCEPT !.responses = Tail(@)],
          r |-> Ok(Head(t.responses))]

reset(t) ==
    IF Faulty(t) THEN [t |-> Logged(t, "reset"), r |-> UsbError]
    ELSE [t |-> [Logged(t, "reset") EXCEPT !.sent = <<>>], r |-> Ok(<<>>)]

vendor_control_write(t, request, value, index, data) ==
    IF Faulty(t) THEN [t |-> Logged(t, "vendor_control_write"), r |-> UsbError]
    ELSE [t |-> [Logged(t, "vendor_control_write") EXCEPT
                    !.vendor_calls = Append(@, <<request, value, index, data>>),
                    !.sent = Append(@, data)],
          r |-> Ok(<<>>)]

vendor_control_read(t, request, value, index) ==
    IF Faulty(t) THEN [t |-> Logged(t, "vendor_control_read"), r |-> UsbError]
    ELSE LET u == [Logged(t, "vendor_control_read") EXCEPT
                      !.vendor_reads = Append(@, <<request, value, index>>)]
         IN  IF t.responses = <<>> THEN [t |-> u, r |-> Timeout]
             ELSE [t |-> [u EXCEPT !.responses = Tail(@)],
                   r |-> Ok(Head(t.responses))]

-----------------------------------------------------------------------------
(* Device models: the initialisation handshakes.                              *)

(* An S310 handshake that carries on after a failed write.                    *)
RECURSIVE S310_attempts_WriteIgnored(_, _)
S310_attempts_WriteIgnored(t, attempt) ==
    IF attempt >= ATTEMPTS THEN [t |-> t, r |-> Timeout]
    ELSE LET w == vendor_control_write(t, 1, 0, 0, INIT_CMD)
             rd == vendor_control_read(w.t, 1, 0, 0)
         IN  IF IsOk(rd.r) /\ rd.r.val # <<>> THEN [t |-> rd.t, r |-> Ok(<<>>)]
             ELSE IF ~IsOk(rd.r) /\ attempt + 1 >= ATTEMPTS THEN rd
             ELSE S310_attempts_WriteIgnored(rd.t, attempt + 1)

(* S310: up to ATTEMPTS rounds of write [0x54], read; a failed write aborts,
   a non-empty reply succeeds, a read error on the last round is returned.    *)
RECURSIVE S310_attempts(_, _)
S310_attempts(t, attempt) ==
    IF attempt >= ATTEMPTS THEN [t |-> t, r |-> Timeout]
    ELSE LET w == vendor_control_write(t, 1, 0, 0, INIT_CMD)
             rd == vendor_control_read(w.t, 1, 0, 0)
         IN  IF ~IsOk(w.r) THEN w
             ELSE IF IsOk(rd.r) /\ rd.r.val # <<>> THEN [t |-> rd.t, r |-> Ok(<<>>)]
             ELSE IF ~IsOk(rd.r) /\ attempt + 1 >= ATTEMPTS THEN rd
             ELSE S310_attempts(rd.t, attempt + 1)

S310Model_initialize(t) == S310_attempts(t, 0)

(* An S320 retry loop without the fallback to a plain receive.                *)
RECURSIVE S320_attempts_NoReceive(_, _)
S320_attempts_NoReceive(t, attempt) ==
    IF attempt >= INIT_ATTEMPTS THEN [t |-> t, r |-> Ok(FALSE)]
    ELSE LET w == vendor_control_write(t, 1, 0, 0, INIT1)
             rd == vendor_control_read(w.t, 1, 0, 0)
         IN  IF ~IsOk(w.r) THEN w
             ELSE IF IsOk(rd.r) /\ rd.r.val # <<>> THEN [t |-> rd.t, r |-> Ok(TRUE)]
             ELSE IF ~IsOk(rd.r) /\ attempt + 1 >= INIT_ATTEMPTS THEN rd
             ELSE S320_attempts_NoReceive(rd.t, attempt + 1)

(* S320: the retry loop; the value of an Ok result is the flag `ok`.          *)
RECURSIVE S320_attempts(_, _)
S320_attempts(t, attempt) ==
    IF attempt >= INIT_ATTEMPTS THEN [t |-> t, r |-> Ok(FALSE)]
    ELSE LET w == vendor_control_write(t, 1, 0, 0, INIT1)
             rd == vendor_control_read(w.t, 1, 0, 0)
             rc == receive(rd.t)
         IN  IF ~IsOk(w.r) THEN w
             ELSE IF IsOk(rd.r) /\ rd.r.val # <<>> THEN [t |-> rd.t, r |-> Ok(TRUE)]
             ELSE IF IsOk(rc.r) /\ rc.r.val # <<>> THEN [t |-> rc.t, r |-> Ok(TRUE)]
             ELSE IF ~IsOk(rc.r) /\ attempt + 1 >= INIT_ATTEMPTS THEN rc
             ELSE S320_attempts(rc.t, attempt + 1)

S320Model_initialize(t) ==
    LET a == S320_attempts(t, 0)
        w == vendor_control_write(a.t, 2, 0, 0, INIT2)
    IN  IF ~IsOk(a.r) THEN a
        ELSE IF ~a.r.val THEN [t |-> a.t, r |-> Timeout]
        ELSE IF ~IsOk(w.r) THEN w
        ELSE [t |-> w.t, r |-> Ok(<<>>)]

(* An S330 handshake that reads the reply to the version query.               *)
S330Model_initialize_ReadVersion(t) ==
    LET a == vendor_control_write(t, 0, 0, 0, RCS956_RF_ON)
        b == vendor_control_read(a.t, 0, 0, 0)
        c == vendor_control_write(b.t, 0, 0, 0, RCS956_GET_VERSION)
        e == vendor_control_read(c.t, 0, 0, 0)
    IN  [t |-> e.t, r |-> Ok(<<>>)]

(* S330: three best-effort transfers whose results are dropped.               *)
S330Model_initialize(t) ==
    LET a == vendor_control_write(t, 0, 0, 0, RCS956_RF_ON)
        b == vendor_control_read(a.t, 0, 0, 0)
        c == vendor_control_write(b.t, 0, 0, 0, RCS956_GET_VERSION)
    IN  [t |-> c.t, r |-> Ok(<<>>)]

(* create_model_for(device_type).initialize(transport)                        *)
DeviceModel_initialize(device_type, t) ==
    CASE device_type = "S310" -> S310Model_initialize(t)
      [] device_type = "S320" -> S320Model_initialize(t)
      [] device_type = "S330" -> S330Model_initialize(t)

(* A handle that goes on with the handshake after a failed reset.             *)
Device_initialize_IgnoreReset(device_type, t) ==
    DeviceModel_initialize(device_type, reset(t).t)

(* Device<Uninitialized>::initialize: reset, then the model's handshake; the
   first error is returned and the handle, consumed by the call, is gone.     *)
Device_initialize(device_type, t) ==
    LET rs == reset(t)
    IN  IF ~IsOk(rs.r) THEN rs
        ELSE DeviceModel_initialize(device_type, rs.t)

-----------------------------------------------------------------------------
(* Commands.                                                                  *)

encode_polling(system_code, request_code, time_slot) ==
    <<0, system_code % 256, system_code \div 256, request_code, time_slot>>

encode_request_response(idm) == <<4>> \o idm

(* n.to_le_bytes() of every node code, one after the other                    *)
NodeBytes(node_codes) ==
    [i \in 1..(2 * Len(node_codes)) |->
        IF i % 2 = 1 THEN node_codes[(i + 1) \div 2] % 256
        ELSE (node_codes[i \div 2] \div 256) % 256]

encode_request_service(idm, node_codes) ==
    <<2>> \o idm \o <<Len(node_codes) % 256>> \o NodeBytes(node_codes)

(* AccessMode::DirectAccessOrRead as u8 *)
DirectAccessOrRead == 2

BlockElement_new(service_index, access_mode, block_number) ==
    [service_index |-> service_index, access_mode |-> access_mode,
     block_number |-> block_number]

(* an encoder that uses a two-byte form for the block numbers below 256 *)
BlockElement_encode_TwoByte(blk) ==
    IF blk.block_number < 256
    THEN <<128 + (blk.service_index % 16), blk.block_number>>
    ELSE <<blk.service_index, blk.access_mode, blk.block_number % 256>>

BlockElement_encode(blk) ==
    <<blk.service_index, blk.access_mode, blk.block_number % 256>>

encode_read(idm, services, blocks) ==
    <<6>> \o idm \o <<Len(services) % 256>> \o NodeBytes(services)
        \o <<Len(blocks) % 256>>
        \o Flatten([i \in 1..Len(blocks) |-> BlockElement_encode(blocks[i])])

encode_write_multi(idm, services, blocks, data_blocks) ==
    <<8>> \o idm \o <<Len(services) % 256>> \o NodeBytes(services)
        \o <<Len(blocks) % 256>>
        \o Flatten([i \in 1..Len(blocks) |-> BlockElement_encode(blocks[i])])
        \o Flatten(data_blocks)

(* a single-block encoder of its own that leaves the two counts out *)
encode_write_NoCounts(idm, service, block, data) ==
    <<8>> \o idm \o <<service % 256, (service \div 256) % 256>>
        \o BlockElement_encode(block) \o data

encode_write(idm, service, block, data) ==
    encode_write_multi(idm, <<service>>, <<block>>, <<data>>)

encode_request_system_code(idm) == <<12>> \o idm

encode_search_service_code(idm, index) ==
    <<10>> \o idm \o <<index % 256, (index \div 256) % 256>>

command_code(cmd) ==
    CASE cmd.kind = "Polling" -> 0
      [] cmd.kind = "ReadWithoutEncryption" -> 6
      [] cmd.kind = "WriteWithoutEncryption" -> 8
      [] cmd.kind = "WriteWithoutEncryptionMulti" -> 8
      [] cmd.kind = "RequestService" -> 2
      [] cmd.kind = "RequestResponse" -> 4
      [] cmd.kind = "RequestSystemCode" -> 12
      [] cmd.kind = "SearchServiceCode" -> 10

Command_encode(cmd) ==
    CASE cmd.kind = "Polling" ->
            encode_polling(cmd.system_code, cmd.request_code, cmd.time_slot)
      [] cmd.kind = "ReadWithoutEncryption" ->
            encode_read(cmd.idm, cmd.services, cmd.blocks)
      [] cmd.kind = "WriteWithoutEncryption" ->
            encode_write(cmd.idm, cmd.service, cmd.block, cmd.data)
      [] cmd.kind = "WriteWithoutEncryptionMulti" ->
            encode_write_multi(cmd.idm, cmd.services, cmd.blocks, cmd.data)
      [] cmd.kind = "RequestService" -> encode_request_service(cmd.idm, cmd.node_codes)
      [] cmd.kind = "RequestResponse" -> encode_request_response(cmd.idm)
      [] cmd.kind = "RequestSystemCode" -> encode_request_system_code(cmd.idm)
      [] cmd.kind = "SearchServiceCode" ->
            encode_search_service_code(cmd.idm, cmd.index)

encode_command_frame(cmd) == Frame_encode(Command_encode(cmd))

-----------------------------------------------------------------------------
(* RCS956 / PN532 helpers of the S330 model.                                  *)

Min(S) == CHOOSE x \in S : \A y \in S : x <= y

Max(S) == CHOOSE x \in S : \A y \in S : x >= y

RECURSIVE SortedSeq(_)
SortedSeq(S) == IF S = {} THEN <<>> ELSE <<Min(S)>> \o SortedSeq(S \ {Min(S)})

(* s[from..].iter().position(|b| b == byte), as an index into s; -1 for None  *)
FindByte(s, from, byte) ==
    LET hits == {i \in from..(Len(s) - 1) : At(s, i) = byte}
    IN  IF hits = {} THEN -1 ELSE Min(hits)

StartsWithPreamble(s, i) ==
    /\ i + 3 <= Len(s)
    /\ Slice(s, i, i + 3) = FELICA_PREAMBLE

(* s[from..].windows(3).position(|w| w == FELICA_PREAMBLE), as an index into s *)
FindPreamble(s, from) ==
    LET hits == {i \in from..(Len(s) - 3) : StartsWithPreamble(s, i)}
    IN  IF hits = {} THEN -1 ELSE Min(hits)

Suffix(s, from) == Slice(s, from, Len(s))

OkToSome(r) == IF IsOk(r) THEN Some(r.val) ELSE None

(* Frame::encode(&s[idx..]) for the index idx of a found byte, None if absent *)
EncodeFrom(s, idx) == IF idx >= 0 THEN OkToSome(Frame_encode(Suffix(s, idx))) ELSE None

(* An extractor that passes a candidate on without decoding it.               *)
InnerOfPayload_Unchecked(candidate, payload, expected_cmd) ==
    IF IsOk(payload) /\ Len(payload.val) > 0
                    /\ At(payload.val, 0) = PN532_CMD_PREFIX_DEVICE
    THEN EncodeFrom(payload.val, FindByte(payload.val, 1, (expected_cmd + 1) % 256))
    ELSE Some(candidate)

(* What a checksum-valid wire frame found in a device reply contributes: the
   frame itself, or, when its payload starts with 0xD5, the re-framed bytes
   from the expected response code on; None when nothing is contributed.      *)
InnerOfPayload(candidate, payload, expected_cmd) ==
    IF ~IsOk(payload) THEN None
    ELSE IF Len(payload.val) > 0 /\ At(payload.val, 0) = PN532_CMD_PREFIX_DEVICE
    THEN EncodeFrom(payload.val, FindByte(payload.val, 1, (expected_cmd + 1) % 256))
    ELSE Some(candidate)

InnerOf(candidate, expected_cmd) ==
    InnerOfPayload(candidate, Frame_decode(candidate), expected_cmd)

(* Step 1 of extract_felica_from_pn532_response: the preamble search.         *)
RECURSIVE extract_scan(_, _, _)
extract_scan(raw, expected_cmd, search_start) ==
    LET pos == FindPreamble(raw, search_start)
        len == At(raw, pos + 3)
        total == 7 + len
    IN  IF search_start + 3 > Len(raw) THEN None
        ELSE IF pos < 0 THEN None
        ELSE IF pos + 3 >= Len(raw) THEN None
        ELSE IF len = 0 THEN extract_scan(raw, expected_cmd, pos + 1)
        ELSE IF pos + total > Len(raw) THEN None
        ELSE InnerOf(Slice(raw, pos, pos + total), expected_cmd)

OrElse(first, second) == IF IsSome(first) THEN first ELSE second

(* Step 2 of extract_felica_from_pn532_response: a reply that starts with
   0xD5 and holds the expected response code after its three header bytes.    *)
extract_unframed(raw, expected_cmd) ==
    IF Len(raw) > 3 /\ At(raw, 0) = PN532_CMD_PREFIX_DEVICE
    THEN EncodeFrom(raw, FindByte(raw, 3, (expected_cmd + 1) % 256))
    ELSE None

extract_felica_from_pn532_response(raw, expected_cmd) ==
    OrElse(extract_scan(raw, expected_cmd, 0), extract_unframed(raw, expected_cmd))

OptSeq(o) == IF IsSome(o) THEN <<o.val>> ELSE <<>>

(* A scan that puts each frame it finds before the ones found earlier.        *)
RECURSIVE scan_frames_Reversed(_, _, _)
scan_frames_Reversed(raw, expected_cmd, i) ==
    LET len == At(raw, i + 3)
        total == 7 + len
    IN  IF ~(i + 3 < Len(raw)) THEN <<>>
        ELSE IF ~StartsWithPreamble(raw, i)
        THEN scan_frames_Reversed(raw, expected_cmd, i + 1)
        ELSE IF len = 0 THEN scan_frames_Reversed(raw, expected_cmd, i + 1)
        ELSE IF i + total <= Len(raw)
        THEN scan_frames_Reversed(raw, expected_cmd, i + total)
                \o OptSeq(InnerOf(Slice(raw, i, i + total), expected_cmd))
        ELSE <<>>

(* A scan that takes a zero length byte for the length of a frame.            *)
RECURSIVE scan_frames_NoAckSkip(_, _, _)
scan_frames_NoAckSkip(raw, expected_cmd, i) ==
    LET len == At(raw, i + 3)
        total == 7 + len
    IN  IF ~(i + 3 < Len(raw)) THEN <<>>
        ELSE IF ~StartsWithPreamble(raw, i)
        THEN scan_frames_NoAckSkip(raw, expected_cmd, i + 1)
        ELSE IF i + total <= Len(raw)
        THEN OptSeq(InnerOf(Slice(raw, i, i + total), expected_cmd))
                \o scan_frames_NoAckSkip(raw, expected_cmd, i + total)
        ELSE <<>>

(* The first loop of extract_all_felica_frames_from_pn532_response.           *)
RECURSIVE scan_frames(_, _, _)
scan_frames(raw, expected_cmd, i) ==
    LET len == At(raw, i + 3)
        total == 7 + len
    IN  IF ~(i + 3 < Len(raw)) THEN <<>>
        ELSE IF ~StartsWithPreamble(raw, i) THEN scan_frames(raw, expected_cmd, i + 1)
        ELSE IF len = 0 THEN scan_frames(raw, expected_cmd, i + 1)
        ELSE IF i + total <= Len(raw)
        THEN OptSeq(InnerOf(Slice(raw, i, i + total), expected_cmd))
                \o scan_frames(raw, expected_cmd, i + total)
        ELSE <<>>

extract_d5_regions(raw) ==
    LET starts == SortedSeq({i \in 0..(Len(raw) - 1) :
                                At(raw, i) = PN532_CMD_PREFIX_DEVICE})
    IN  [k \in 1..Len(starts) |->
            Slice(raw, starts[k],
                  IF k < Len(starts) THEN starts[k + 1] ELSE Len(raw))]

(* a search that prefers the shortest first chunk *)
RECURSIVE partition_unframed_targets_ShortestFirst(_, _, _)
partition_unframed_targets_ShortestFirst(rem, expected_response, targets) ==
    IF targets = 0 THEN (IF rem = <<>> THEN Some(<<>>) ELSE None)
    ELSE IF targets = 1
    THEN (IF rem # <<>> /\ At(rem, 0) = expected_response /\ IsOk(Frame_encode(rem))
          THEN Some(<<rem>>) ELSE None)
    ELSE LET max_len == IF Len(rem) > targets - 1 THEN Len(rem) - (targets - 1) ELSE 0
             fits == {len \in 1..max_len :
                        /\ At(rem, 0) = expected_response
                        /\ IsOk(Frame_encode(Slice(rem, 0, len)))
                        /\ IsSome(partition_unframed_targets_ShortestFirst(
                                    Suffix(rem, len), expected_response, targets - 1))}
             best == Min(fits)
         IN  IF fits = {} THEN None
             ELSE Some(<<Slice(rem, 0, best)>>
                        \o partition_unframed_targets_ShortestFirst(
                                Suffix(rem, best), expected_response, targets - 1).val)

RECURSIVE partition_unframed_targets(_, _, _)
partition_unframed_targets(rem, expected_response, targets) ==
    IF targets = 0 THEN (IF rem = <<>> THEN Some(<<>>) ELSE None)
    ELSE IF targets = 1
    THEN (IF rem # <<>> /\ At(rem, 0) = expected_response /\ IsOk(Frame_encode(rem))
          THEN Some(<<rem>>) ELSE None)
    ELSE LET max_len == IF Len(rem) > targets - 1 THEN Len(rem) - (targets - 1) ELSE 0
             fits == {len \in 1..max_len :
                        /\ At(rem, 0) = expected_response
                        /\ IsOk(Frame_encode(Slice(rem, 0, len)))
                        /\ IsSome(partition_unframed_targets(
                                    Suffix(rem, len), expected_response, targets - 1))}
             best == Max(fits)
         IN  IF fits = {} THEN None
             ELSE Some(<<Slice(rem, 0, best)>>
                        \o partition_unframed_targets(
                                Suffix(rem, best), expected_response, targets - 1).val)

OkSeq(r) == IF IsOk(r) THEN <<r.val>> ELSE <<>>

(* The frames of one D5 region that holds a preamble at rel_pos: the result is
   [frames, extracted].                                                       *)
RECURSIVE region_frames(_, _, _)
region_frames(region, expected_cmd, rel_pos) ==
    LET len == At(region, rel_pos + 3)
        total == 7 + len
        here == OptSeq(InnerOf(Slice(region, rel_pos, rel_pos + total), expected_cmd))
        after == rel_pos + total
        next == FindPreamble(region, after)
        rest == IF StartsWithPreamble(region, after)
                THEN region_frames(region, expected_cmd, after)
                ELSE IF next >= 0 THEN region_frames(region, expected_cmd, next)
                ELSE [frames |-> <<>>, extracted |-> FALSE]
    IN  IF ~(rel_pos + 3 < Len(region)) THEN [frames |-> <<>>, extracted |-> FALSE]
        ELSE IF rel_pos + total > Len(region) THEN [frames |-> <<>>, extracted |-> FALSE]
        ELSE [frames |-> here \o rest.frames, extracted |-> TRUE]

EncodedParts(parts) == Flatten([k \in 1..Len(parts) |-> OkSeq(Frame_encode(parts[k]))])

(* step 3 for one region: the first suffix from offset 3 on that encodes      *)
LastResort(region) ==
    LET starts == {s \in 3..(Len(region) - 1) : IsOk(Frame_encode(Suffix(region, s)))}
    IN  IF starts = {} THEN <<>> ELSE OkSeq(Frame_encode(Suffix(region, Min(starts))))

(* step 2 for one region: the frames of the heuristic that applies, else
   those of step 3                                                            *)
Unframed(region, parts, wrapped) ==
    IF IsSome(parts) THEN EncodedParts(parts.val)
    ELSE IF IsSome(wrapped) THEN <<wrapped.val>>
    ELSE LastResort(region)

FramedOr(framed, unframed) == IF framed.extracted THEN framed.frames ELSE unframed

(* frames contributed by one D5 region when no framed reply was found         *)
region_candidates(region, expected_cmd) ==
    LET expected_response == (expected_cmd + 1) % 256
        pre == FindPreamble(region, 0)
        inlist == Len(region) >= 3 /\ At(region, 1) = PN532_RESP_INLIST_PASSIVE_TARGET
    IN  FramedOr(
            IF pre >= 0 THEN region_frames(region, expected_cmd, pre)
            ELSE [frames |-> <<>>, extracted |-> FALSE],
            IF inlist
            THEN Unframed(region,
                    IF At(region, 2) > 0 /\ Suffix(region, 3) # <<>>
                    THEN partition_unframed_targets(
                            Suffix(region, 3), expected_response, At(region, 2))
                    ELSE None,
                    IF Len(region) > 3
                    THEN EncodeFrom(region, FindByte(region, 3, expected_response))
                    ELSE None)
            ELSE Unframed(region, None,
                    EncodeFrom(region, FindByte(region, 0, expected_response))))

IfEmpty(out, other) == IF out # <<>> THEN out ELSE other

RegionsCandidates(regions, expected_cmd) ==
    Flatten([k \in 1..Len(regions) |-> region_candidates(regions[k], expected_cmd)])

extract_all_felica_frames_from_pn532_response(raw, expected_cmd) ==
    IfEmpty(scan_frames(raw, expected_cmd, 0),
            RegionsCandidates(extract_d5_regions(raw), expected_cmd))

-----------------------------------------------------------------------------
(* Device<Initialized>: execute, polling, list_passive_targets.               *)

pn532_ack == <<0, 0, 255, 0, 255, 0>>

wrap_command(device_type, framed, payload) ==
    IF device_type # "S330" THEN framed
    ELSE IF framed # <<>> /\ At(framed, 0) = 212 THEN framed
    ELSE IF payload # <<>> /\ At(payload, 0) = 0 THEN <<212, 74, 1, 1>> \o payload
    ELSE <<212, 66, Len(payload) % 256>> \o payload

unwrap_response(device_type, expected_cmd, raw) ==
    LET inner == extract_felica_from_pn532_response(raw, expected_cmd)
    IN  IF device_type = "S330" /\ IsSome(inner) THEN Ok(inner.val) ELSE Ok(raw)

extract_candidate_frames(device_type, raw, expected_cmd) ==
    IF device_type = "S330"
    THEN extract_all_felica_frames_from_pn532_response(raw, expected_cmd)
    ELSE <<>>

DecodeAll(frames, expected_cmd) ==
    [k \in 1..Len(frames) |-> decode_response_frame(expected_cmd, frames[k])]

(* the first Ok among the results ds, else e                                  *)
FirstOk(ds, e) ==
    LET oks == {k \in 1..Len(ds) : IsOk(ds[k])}
    IN  IF oks = {} THEN e ELSE ds[Min(oks)]

(* An execute that tries the candidate frames on every device type.           *)
Execute_decoded_AnyDevice(device_type, code, raw, d) ==
    IF IsOk(d) THEN d
    ELSE FirstOk(DecodeAll(extract_all_felica_frames_from_pn532_response(raw, code),
                           code), d)

(* the end of execute: d is the result of the normal decode of the unwrapped
   reply; on an S330 a failure falls back to the candidate frames of raw.     *)
Execute_decoded(device_type, code, raw, d) ==
    IF IsOk(d) THEN d
    ELSE FirstOk(DecodeAll(extract_candidate_frames(device_type, raw, code), code), d)

Execute_unwrap(device_type, code, t2, raw) ==
    [t |-> t2,
     r |-> Execute_decoded(device_type, code, raw,
              decode_response_frame(code, unwrap_response(device_type, code, raw).val))]

(* the second receive after an ACK-only first read; its failure is ignored    *)
Execute_followed(device_type, code, ack, follow) ==
    Execute_unwrap(device_type, code, follow.t,
                   IF IsOk(follow.r) THEN ack \o follow.r.val ELSE ack)

(* An execute that reads again after an ACK on every device type.             *)
Execute_received_AnyDevice(device_type, code, rc) ==
    IF ~IsOk(rc.r) THEN rc
    ELSE IF rc.r.val = pn532_ack
    THEN Execute_followed(device_type, code, rc.r.val, receive(rc.t))
    ELSE Execute_unwrap(device_type, code, rc.t, rc.r.val)

Execute_received(device_type, code, rc) ==
    IF ~IsOk(rc.r) THEN rc
    ELSE IF device_type = "S330" /\ rc.r.val = pn532_ack
    THEN Execute_followed(device_type, code, rc.r.val, receive(rc.t))
    ELSE Execute_unwrap(device_type, code, rc.t, rc.r.val)

(* An execute that goes on to receive after a failed send.                    *)
Execute_sent_ReceiveAnyway(device_type, code, s) ==
    Execute_received(device_type, code, receive(s.t))

Execute_sent(device_type, code, s) ==
    IF ~IsOk(s.r) THEN s ELSE Execute_received(device_type, code, receive(s.t))

(* An execute that sends the payload it could not frame.                      *)
Execute_framed_SendAnyway(device_type, t, cmd, payload, framed) ==
    Execute_sent(device_type, command_code(cmd),
                 send(t, wrap_command(device_type,
                                      IF IsOk(framed) THEN framed.val ELSE payload, payload)))

Execute_framed(device_type, t, cmd, payload, framed) ==
    IF ~IsOk(framed) THEN [t |-> t, r |-> framed]
    ELSE Execute_sent(device_type, command_code(cmd),
                      send(t, wrap_command(device_type, framed.val, payload)))

Device_execute(device_type, t, cmd) ==
    Execute_framed(device_type, t, cmd, Command_encode(cmd), encode_command_frame(cmd))

Card_new(idm, pmm, system_code) ==
    [card_type |-> "TypeF", idm |-> idm, pmm |-> pmm, system_code |-> system_code]

Card_new_type_a(uid) == [card_type |-> "TypeA", uid |-> uid]

Card_new_type_b(uid, atqb) == [card_type |-> "TypeB", uid |-> uid, atqb |-> atqb]

PollingCard(resp) ==
    Card_new(resp.fields.idm, resp.fields.pmm, resp.fields.system_code)

(* the match of polling on what execute returned                              *)
Polling_matched(x) ==
    IF ~IsOk(x.r) THEN x
    ELSE IF x.r.val.kind = "Polling" THEN [t |-> x.t, r |-> Ok(PollingCard(x.r.val))]
    ELSE [t |-> x.t, r |-> PollingFailed]

Device_polling(device_type, t, system_code) ==
    Polling_matched(
        Device_execute(device_type, t,
                       [kind |-> "Polling", system_code |-> system_code,
                        request_code |-> 0, time_slot |-> 0]))

build_in_list_passive_target(max_targets, brty) == <<212, 74, max_targets, brty>>

(* A per-target loop that takes the UID of a Type B card from the first four
   bytes of the ATQB.                                                         *)
RECURSIVE ParseTargets_PupiFromZero(_, _, _, _)
ParseTargets_PupiFromZero(raw, card_type, n, pos) ==
    LET p1 == pos + 1
        atqb == Slice(raw, p1, p1 + 12)
        b2 == p1 + 12
        b3 == IF b2 < Len(raw) THEN b2 + 1 + At(raw, b2) ELSE b2
        a2 == p1 + 3
        uid_len == At(raw, a2)
        a3 == a2 + 1
    IN  IF n = 0 \/ pos >= Len(raw) THEN <<>>
        ELSE IF card_type = "TypeB"
        THEN IF p1 + 12 <= Len(raw)
             THEN <<Card_new_type_b(Slice(atqb, 0, 4), atqb)>>
                    \o ParseTargets_PupiFromZero(raw, card_type, n - 1, b3)
             ELSE ParseTargets_PupiFromZero(raw, card_type, n - 1, p1)
        ELSE IF p1 + 3 < Len(raw)
             THEN IF a3 + uid_len <= Len(raw)
                  THEN <<Card_new_type_a(Slice(raw, a3, a3 + uid_len))>>
                         \o ParseTargets_PupiFromZero(raw, card_type, n - 1, a3 + uid_len)
                  ELSE ParseTargets_PupiFromZero(raw, card_type, n - 1, a3)
             ELSE ParseTargets_PupiFromZero(raw, card_type, n - 1, p1)

(* the per-target loop of the Type A / Type B branch, from target n down      *)
RECURSIVE ParseTargets(_, _, _, _)
ParseTargets(raw, card_type, n, pos) ==
    LET p1 == pos + 1
        atqb == Slice(raw, p1, p1 + 12)
        b2 == p1 + 12
        b3 == IF b2 < Len(raw) THEN b2 + 1 + At(raw, b2) ELSE b2
        a2 == p1 + 3
        uid_len == At(raw, a2)
        a3 == a2 + 1
    IN  IF n = 0 \/ pos >= Len(raw) THEN <<>>
        ELSE IF card_type = "TypeB"
        THEN IF p1 + 12 <= Len(raw)
             THEN <<Card_new_type_b(Slice(atqb, 1, 5), atqb)>>
                    \o ParseTargets(raw, card_type, n - 1, b3)
             ELSE ParseTargets(raw, card_type, n - 1, p1)
        ELSE IF p1 + 3 < Len(raw)
             THEN IF a3 + uid_len <= Len(raw)
                  THEN <<Card_new_type_a(Slice(raw, a3, a3 + uid_len))>>
                         \o ParseTargets(raw, card_type, n - 1, a3 + uid_len)
                  ELSE ParseTargets(raw, card_type, n - 1, a3)
             ELSE ParseTargets(raw, card_type, n - 1, p1)

DecodeSome(o) == IF IsSome(o) THEN decode_response_frame(0, o.val) ELSE PollingFailed

(* recovery 1: a candidate that starts with 0xD5 is searched for an inner frame *)
Recovery1(frame) ==
    IF frame # <<>> /\ At(frame, 0) = PN532_CMD_PREFIX_DEVICE
    THEN DecodeSome(extract_felica_from_pn532_response(frame, 0))
    ELSE PollingFailed

(* recovery 2: the candidate is framed once more and decoded                  *)
Recovery2(frame) == DecodeSome(OkToSome(Frame_encode(frame)))

CardOf(d) == IF IsOk(d) THEN <<PollingCard(d.val)>> ELSE <<>>

(* the card, if any, one candidate frame of a Type F reply yields             *)
FrameCards(frame) ==
    CardOf(FirstOk(<<decode_response_frame(0, frame), Recovery1(frame), Recovery2(frame)>>,
                   PollingFailed))

FramesCards(frames) == Flatten([k \in 1..Len(frames) |-> FrameCards(frames[k])])

TargetsCards(raw, card_type) ==
    IF /\ Len(raw) > 4
       /\ At(raw, 0) = PN532_CMD_PREFIX_DEVICE
       /\ At(raw, 1) = PN532_RESP_INLIST_PASSIVE_TARGET
    THEN ParseTargets(raw, card_type, At(raw, 2), 3)
    ELSE <<>>

ListPassiveTargets_read(rd, card_type) ==
    IF ~IsOk(rd.r) THEN rd
    ELSE IF card_type \in {"TypeA", "TypeB"}
    THEN [t |-> rd.t, r |-> Ok(TargetsCards(rd.r.val, card_type))]
    ELSE [t |-> rd.t,
          r |-> Ok(FramesCards(extract_all_felica_frames_from_pn532_response(rd.r.val, 0)))]

(* a best-effort write: the read follows a failed write *)
ListPassiveTargets_written_BestEffort(w, card_type) ==
    ListPassiveTargets_read(vendor_control_read(w.t, 0, 0, 0), card_type)

ListPassiveTargets_written(w, card_type) ==
    IF ~IsOk(w.r) THEN w
    ELSE ListPassiveTargets_read(vendor_control_read(w.t, 0, 0, 0), card_type)

S330Model_list_passive_targets(t, card_type, system_code, max_targets) ==
    LET brty == CASE card_type = "TypeA" -> 0
                  [] card_type = "TypeB" -> 3
                  [] card_type = "TypeF" -> 1
        cmd == build_in_list_passive_target(max_targets, brty)
                 \o (IF card_type = "TypeF"
                     THEN <<255, 255, 0, 0>> \o encode_polling(system_code, 0, 0)
                     ELSE <<>>)
    IN  ListPassiveTargets_written(vendor_control_write(t, 0, 0, 0, cmd), card_type)

Device_list_passive_targets(device_type, t, card_type, system_code, max_targets) ==
    IF device_type = "S330"
    THEN S330Model_list_passive_targets(t, card_type, system_code, max_targets)
    ELSE [t |-> t, r |-> PollingFailed]

-----------------------------------------------------------------------------
(* The life of one handle.                                                    *)

MaxQueue == 2

MaxFaultAt == 7

(* the ordinals of reset and of the first write and read of a handshake       *)
HandshakeStart == {1, 2, 3}

(* the sets of failing call ordinals a run is started with: any failures
   among the first calls of initialize, or one failing call anywhere          *)
FaultSets ==
    SUBSET HandshakeStart \cup {{n} : n \in 1..MaxFaultAt}

MaxCalls == 1

DeviceTypes == {"S310", "S320", "S330"}

CardTypes == {"TypeA", "TypeB", "TypeF"}

sample_system_code == 2571

polling_payload == <<1>> \o SampleIdm \o SamplePmm \o <<11, 10>>

(* the second Polling response of the multi-frame tests                       *)
second_payload ==
    <<1>> \o <<21, 22, 23, 24, 25, 26, 27, 28>> \o <<29, 30, 31, 32, 33, 34, 35, 36>>
        \o <<17, 17>>

(* a RequestResponse reply: response code 5, the IDm, mode 0                  *)
request_response_payload == <<5>> \o SampleIdm \o <<0>>

(* one read that holds three frames: a RequestResponse reply and two Polling
   responses                                                                  *)
ConcatenatedRead ==
    Frame_encode(request_response_payload).val
        \o Frame_encode(second_payload).val
        \o Frame_encode(polling_payload).val

DevResponses ==
    {<<>>, <<170>>, Frame_encode(polling_payload).val, pn532_ack,
     <<213, 75, 1>> \o polling_payload, ConcatenatedRead}

(* the least number of node codes whose RequestService payload, 10 + 2n
   bytes, no longer fits a frame                                             *)
OversizeNodes == (FELICA_MAX_PAYLOAD_LEN - 10) \div 2 + 1

DevCommands ==
    {[kind |-> "Polling", system_code |-> sample_system_code,
      request_code |-> 1, time_slot |-> 0],
     [kind |-> "RequestResponse", idm |-> SampleIdm],
     [kind |-> "RequestService", idm |-> SampleIdm,
      node_codes |-> [i \in 1..OversizeNodes |-> i]]}

DevInit ==
    /\ FrameIdle
    /\ RespIdle
    /\ LinkIdle
    /\ ExtIdle
    /\ MoreIdle
    /\ devState = "Uninitialized"
    /\ devType \in DeviceTypes
    /\ \E q \in SeqsUpTo(DevResponses, MaxQueue) :
         \E f \in FaultSets :
            transport = [MockTransport_new EXCEPT !.responses = q, !.faults = f]
    /\ transport0 = transport
    /\ devRes = None
    /\ devInits = 0
    /\ devCalls = <<>>
    /\ devArgs = <<>>
    /\ devPre = transport

Returned(call, arg, x) ==
    /\ transport' = x.t
    /\ devRes' = x.r
    /\ devCalls' = Append(devCalls, call)
    /\ devArgs' = Append(devArgs, arg)
    /\ devPre' = transport

(* Device<Uninitialized>::initialize(self)                                    *)
Initialize ==
    /\ devState = "Uninitialized"
    /\ LET x == Device_initialize(devType, transport)
       IN  /\ Returned("initialize", devType, x)
           /\ devState' = IF IsOk(x.r) THEN "Initialized" ELSE "Released"
    /\ devInits' = devInits + 1
    /\ UNCHANGED <<devType, transport0, frameVars, respVars, linkVars, extVars, moreVars>>

(* Device<Initialized>::execute(&mut self, cmd, timeout_ms)                   *)
Execute ==
    /\ devState = "Initialized"
    /\ Len(devCalls) <= MaxCalls
    /\ \E cmd \in DevCommands :
         Returned("execute", cmd, Device_execute(devType, transport, cmd))
    /\ UNCHANGED <<devState, devType, transport0, devInits, frameVars, respVars,
                   linkVars, extVars, moreVars>>

(* Device<Initialized>::polling(&mut self, system_code)                       *)
Polling ==
    /\ devState = "Initialized"
    /\ Len(devCalls) <= MaxCalls
    /\ Returned("polling", sample_system_code,
                Device_polling(devType, transport, sample_system_code))
    /\ UNCHANGED <<devState, devType, transport0, devInits, frameVars, respVars,
                   linkVars, extVars, moreVars>>

(* Device<Initialized>::list_passive_targets(&mut self, ..)                   *)
ListPassiveTargets ==
    /\ devState = "Initialized"
    /\ Len(devCalls) <= MaxCalls
    /\ \E card_type \in CardTypes :
         Returned("list_passive_targets", card_type,
                  Device_list_passive_targets(devType, transport, card_type,
                                              sample_system_code, 1))
    /\ UNCHANGED <<devState, devType, transport0, devInits, frameVars, respVars,
                   linkVars, extVars, moreVars>>

DevNext == Initialize \/ Execute \/ Polling \/ ListPassiveTargets

SpecDev == DevInit /\ [][DevNext]_vars

-----------------------------------------------------------------------------
(* Properties of the handle.                                                  *)

HandleOps == {"execute", "polling", "list_passive_targets"}

(* would reset succeed on the transport as it was handed over *)
ResetOk == IsOk(reset(transport0).r)

(* the handshake of the model on the transport as reset leaves it *)
Handshake == DeviceModel_initialize(devType, reset(transport0).t)

HandshakeOk == IsOk(Handshake.r)

InitializeDone == devInits >= 1

HandleState ==
    /\ devInits <= 1
    /\ \A i \in 1..Len(devCalls) :
         devCalls[i] \in HandleOps =>
            i > 1 /\ devCalls[1] = "initialize" /\ ResetOk /\ HandshakeOk
    /\ devState = "Initialized" => InitializeDone /\ ResetOk /\ HandshakeOk
    /\ transport.log # <<>> => transport.log[1] = "reset"
    /\ InitializeDone /\ ~ResetOk =>
         /\ devState = "Released"
         /\ devCalls = <<"initialize">>
         /\ transport.log = <<"reset">>
    /\ InitializeDone /\ ResetOk /\ ~HandshakeOk =>
         /\ devState = "Released"
         /\ devCalls = <<"initialize">>
         /\ transport = Handshake.t

(* C10: execute, polling and list_passive_targets are made only on a handle
   whose initialize returned success; a handle is initialized at most once;
   the first transport call of initialize is reset; when reset or the
   handshake fails the handle is released, the transport is left as the
   failing call left it, and no step follows.                                 *)
C10_Lifecycle == []HandleState /\ [][devState # "Released"]_vars

(* a handle released by a handshake that failed after some transfers *)
C10_Witness ==
    /\ devState = "Released"
    /\ ResetOk
    /\ ~HandshakeOk
    /\ Len(transport.log) > 2

-----------------------------------------------------------------------------
(* Properties of execute.  The last call on the handle is described by what
   it found (devPre), what it was given (devArgs) and what it left behind
   (transport, devRes).                                                       *)

ExecCalls == {"execute", "polling"}

LastCall == devCalls[Len(devCalls)]

LastArg == devArgs[Len(devArgs)]

(* the last call on the handle ran execute *)
Executed == devCalls # <<>> /\ LastCall \in ExecCalls

(* the command that execute ran *)
LastCmd ==
    IF LastCall = "polling"
    THEN [kind |-> "Polling", system_code |-> LastArg, request_code |-> 0, time_slot |-> 0]
    ELSE LastArg

(* the transport calls of the last call on the handle, in order *)
CallLog == SubSeq(transport.log, Len(devPre.log) + 1, Len(transport.log))

(* the buffers the last call on the handle sent, in order *)
CallSent == SubSeq(transport.sent, Len(devPre.sent) + 1, Len(transport.sent))

(* the first transport call of the last call on the handle failed *)
FirstCallFailed == Faulty(devPre)

(* one send, first, then receives only; the framed command on the wire of an
   S310 or S320; a failed send ends the call with its error                  *)
Exchange ==
    /\ CallLog # <<>>
    /\ CallLog[1] = "send"
    /\ \A i \in 2..Len(CallLog) : CallLog[i] = "receive"
    /\ IF FirstCallFailed
       THEN CallLog = <<"send">> /\ CallSent = <<>> /\ devRes = UsbError
       ELSE /\ Len(CallLog) >= 2
            /\ Len(CallSent) = 1
            /\ devType \in {"S310", "S320"} =>
                  /\ IsOk(encode_command_frame(LastCmd))
                  /\ CallSent[1] = encode_command_frame(LastCmd).val

(* C11 as stated: every execute on an initialized handle makes exactly one
   send and only afterwards its receives; on S310 and S320 the bytes sent are
   the framed command; a failed send is returned and no receive is made.      *)
C11_Original == Executed => Exchange

(* C11: an execute whose command fits a frame makes exactly one send and only
   afterwards its receives, sends the framed command on S310 and S320, and
   returns a failed send's error without a receive; an execute whose command
   payload exceeds 255 bytes returns InvalidLength and makes no transport
   call at all.                                                               *)
C11_SendFirst ==
    Executed =>
        IF IsOk(encode_command_frame(LastCmd)) THEN Exchange
        ELSE /\ CallLog = <<>>
             /\ transport = devPre
             /\ devRes = InvalidLength(FELICA_MAX_PAYLOAD_LEN, Len(Command_encode(LastCmd)))

(* an execute whose send failed *)
C11_Witness ==
    /\ Executed
    /\ IsOk(encode_command_frame(LastCmd))
    /\ FirstCallFailed
    /\ devRes = UsbError

(* the first receive of the last execute, made on the transport its send left *)
FirstReceive == receive(send(devPre, <<>>).t)

(* the receive that follows the first one *)
SecondReceive == receive(FirstReceive.t)

(* the last execute sent its command and its first receive returned bytes *)
Received ==
    /\ Executed
    /\ IsOk(encode_command_frame(LastCmd))
    /\ ~FirstCallFailed
    /\ IsOk(FirstReceive.r)

AckOnly == FirstReceive.r.val = pn532_ack

(* the bytes execute goes on with after an ACK-only first read *)
AckThenFollow ==
    IF IsOk(SecondReceive.r) THEN pn532_ack \o SecondReceive.r.val ELSE pn532_ack

(* C12: execute makes a second receive exactly when the device is an S330 and
   the first receive returned the six bytes 00 00 FF 00 FF 00, and never a
   third; the bytes of the second read are appended to the ACK; a failed
   second receive is not returned: the call ends with the decode error of the
   ACK alone.  An S310 or S320 makes one receive whatever it reads.           *)
C12_SecondReceive ==
    Executed /\ IsOk(encode_command_frame(LastCmd)) =>
        /\ Len(CallLog) <= 3
        /\ Len(CallLog) = 3 <=> Received /\ devType = "S330" /\ AckOnly
        /\ Len(CallLog) = 3 =>
              /\ transport = [SecondReceive.t EXCEPT !.sent = transport.sent]
              /\ LastCall = "execute" =>
                    devRes = Execute_unwrap(devType, command_code(LastCmd),
                                            transport, AckThenFollow).r
              /\ ~IsOk(SecondReceive.r) =>
                    /\ ~IsOk(decode_response_frame(command_code(LastCmd), pn532_ack))
                    /\ devRes = decode_response_frame(command_code(LastCmd), pn532_ack)
        /\ Received /\ devType # "S330" =>
              /\ CallLog = <<"send", "receive">>
              /\ transport.responses = FirstReceive.t.responses

(* an S330 whose read after the ACK failed on the link *)
C12_Witness ==
    /\ Received
    /\ devType = "S330"
    /\ AckOnly
    /\ SecondReceive.r = UsbError
    /\ Len(CallLog) = 3
    /\ devRes # UsbError

(* the bytes the last execute went on with after its receive(s) *)
LastRaw == IF devType = "S330" /\ AckOnly THEN AckThenFollow ELSE FirstReceive.r.val

LastCode == command_code(LastCmd)

(* the first, normal decode attempt of the last execute *)
NormalDecode ==
    decode_response_frame(LastCode, unwrap_response(devType, LastCode, LastRaw).val)

Candidates == extract_candidate_frames(devType, LastRaw, LastCode)

CandidateDecode(k) == decode_response_frame(LastCode, Candidates[k])

(* what the last call returned for the result r of execute *)
Shown(r) ==
    IF LastCall = "polling" THEN Polling_matched([t |-> transport, r |-> r]).r ELSE r

(* C13: when the normal decode fails on an S330, the candidate frames are
   decoded in list order and the first that decodes is returned; when none
   decodes, and on every other device type, the error of the normal decode
   is returned.                                                               *)
C13_Fallback ==
    Received /\ ~IsOk(NormalDecode) =>
        IF devType = "S330" /\ \E k \in 1..Len(Candidates) : IsOk(CandidateDecode(k))
        THEN \E k \in 1..Len(Candidates) :
                /\ IsOk(CandidateDecode(k))
                /\ \A j \in 1..(k - 1) : ~IsOk(CandidateDecode(j))
                /\ devRes = Shown(CandidateDecode(k))
        ELSE devRes = NormalDecode

(* an S330 whose normal decode failed and whose second candidate, not its
   first or its third, was returned                                           *)
C13_Witness ==
    /\ Received
    /\ devType = "S330"
    /\ ~IsOk(NormalDecode)
    /\ Len(Candidates) >= 3
    /\ ~IsOk(CandidateDecode(1))
    /\ IsOk(CandidateDecode(2))
    /\ IsOk(CandidateDecode(3))
    /\ CandidateDecode(2) # CandidateDecode(3)
    /\ LastCall = "execute"
    /\ devRes = CandidateDecode(2)

-----------------------------------------------------------------------------
(* The link: a device that answers each command it is sent.  The answer to a
   command is a sequence of reads; each read reaches the transport either in
   time for the receives of the execute that sent the command, or later.      *)

MaxLinkCalls == 3

LinkCommand ==
    [kind |-> "Polling", system_code |-> sample_system_code,
     request_code |-> 1, time_slot |-> 0]

(* the answers of a device: silence, the response frame, and on an S330 the
   PN53x ACK followed by the response frame                                   *)
LinkReplies(device_type) ==
    {<<>>, <<Frame_encode(polling_payload).val>>}
        \cup (IF device_type = "S330"
              THEN {<<pn532_ack, Frame_encode(polling_payload).val>>}
              ELSE {})

(* a handle over a fault-free transport that holds the handshake reply        *)
LinkInit ==
    /\ FrameIdle
    /\ RespIdle
    /\ LinkIdle
    /\ ExtIdle
    /\ MoreIdle
    /\ devState = "Uninitialized"
    /\ devType \in DeviceTypes
    /\ transport = [MockTransport_new EXCEPT !.responses = <<<<170>>>>]
    /\ transport0 = transport
    /\ devRes = None
    /\ devInits = 0
    /\ devCalls = <<>>
    /\ devArgs = <<>>
    /\ devPre = transport

(* execute has returned x on the transport t0 whose queued reads carry tags0  *)
Linked(call, x, t0, tags0, late) ==
    /\ transport' = x.t
    /\ devRes' = x.r
    /\ devPre' = t0
    /\ linkTaken' = Append(linkTaken,
                           [call |-> call,
                            tags |-> SubSeq(tags0, 1,
                                            Len(t0.responses) - Len(x.t.responses))])
    /\ linkTags' = Suffix(tags0, Len(t0.responses) - Len(x.t.responses))
    /\ linkLate' = linkLate \o late

(* execute on a transport on which the first k reads of the answer are in time *)
LinkedExecute(call, cmd, chunks, k) ==
    Linked(call,
           Device_execute(devType,
                          [transport EXCEPT !.responses = @ \o SubSeq(chunks, 1, k)],
                          cmd),
           [transport EXCEPT !.responses = @ \o SubSeq(chunks, 1, k)],
           linkTags \o [j \in 1..k |-> call],
           [j \in 1..(Len(chunks) - k) |-> [tag |-> call, bytes |-> chunks[k + j]]])

(* Device<Initialized>::execute against a device that answers                 *)
LinkExecute ==
    /\ devState = "Initialized"
    /\ Len(devCalls) <= MaxLinkCalls
    /\ \E chunks \in LinkReplies(devType) :
         \E k \in 0..Len(chunks) :
            LinkedExecute(Len(devCalls) + 1, LinkCommand, chunks, k)
    /\ devCalls' = Append(devCalls, "execute")
    /\ devArgs' = Append(devArgs, LinkCommand)
    /\ UNCHANGED <<devState, devType, transport0, devInits, frameVars, respVars,
                   extVars, moreVars>>

(* a late read reaches the transport: MockTransport::push_response            *)
Deliver ==
    /\ devState = "Initialized"
    /\ linkLate # <<>>
    /\ transport' = [transport EXCEPT !.responses = Append(@, Head(linkLate).bytes)]
    /\ linkTags' = Append(linkTags, Head(linkLate).tag)
    /\ linkLate' = Tail(linkLate)
    /\ UNCHANGED <<devState, devType, transport0, devRes, devInits, devCalls,
                   devArgs, devPre, linkTaken, frameVars, respVars, extVars, moreVars>>

LinkNext == Initialize \/ LinkExecute \/ Deliver

SpecLink == LinkInit /\ [][LinkNext]_vars

(* the buffers sent since initialize are the wrapped commands, in call order *)
SentInCallOrder ==
    Suffix(transport.sent, Len(Device_initialize(devType, transport0).t.sent)) =
        [i \in 1..(Len(devCalls) - 1) |->
            wrap_command(devType, encode_command_frame(devArgs[i + 1]).val,
                         Command_encode(devArgs[i + 1]))]

(* no execute consumed a read that answers another command *)
OwnAnswersOnly ==
    \A i \in 1..Len(linkTaken) :
        \A j \in 1..Len(linkTaken[i].tags) : linkTaken[i].tags[j] = linkTaken[i].call

(* C14 as stated: commands are sent in call order, and the answer to each
   command is read before the next command is sent, so that no execute, also
   not one that follows a timeout or an ACK-only read, takes a read that
   answers an earlier command.                                                *)
C14_Original == (devState = "Initialized" => SentInCallOrder) /\ OwnAnswersOnly

(* C14, the part that holds: the commands are sent in call order. *)
C14_SentInOrder == devState = "Initialized" => SentInCallOrder

(* an execute that timed out, followed by an execute that returned the card
   of the read that answers the first                                         *)
C14_Witness ==
    /\ Len(devCalls) = 3
    /\ Len(linkTaken) = 2
    /\ linkTaken[1] = [call |-> 2, tags |-> <<>>]
    /\ linkTaken[2] = [call |-> 3, tags |-> <<2>>]
    /\ IsOk(devRes)
    /\ SentInCallOrder

-----------------------------------------------------------------------------
(* The extractors applied to device replies.  A reply is put together from
   pieces: the byte 0xD5, InListPassiveTarget headers, the PN53x ACK, valid
   frames, a frame whose payload is a PN532 response, a frame with a wrong
   data checksum, and unframed payloads; or it is the reply captured from a
   device.                                                                    *)

MaxPieces == 3

(* a frame with its data checksum off by one *)
BadDcs(frame) ==
    [frame EXCEPT ![Len(frame) - 1] = (@ + 1) % 256]

InListHeaders == {<<213, 75, 1>>, <<213, 75, 2>>, <<213, 75, 3>>}

PlainFrames ==
    {Frame_encode(polling_payload).val, Frame_encode(second_payload).val,
     Frame_encode(request_response_payload).val}

WrappedFrame == Frame_encode(<<213, 75, 1>> \o polling_payload).val

(* the frame of an empty payload: 00 00 FF 00 00 00 00 *)
EmptyFrame == Frame_encode(<<>>).val

ExtractPieces ==
    {<<213>>, pn532_ack, EmptyFrame, WrappedFrame,
     BadDcs(Frame_encode(polling_payload).val), polling_payload, second_payload}
        \cup InListHeaders \cup PlainFrames

(* the reply of extract_and_decode_real_device_capture *)
real_device_capture ==
    <<0, 0, 255, 0, 255, 0, 0, 0, 255, 22, 234, 213, 75, 1, 1, 18, 1, 1, 1, 1, 18, 236,
      35, 170, 31, 1, 54, 66, 130, 71, 69, 154, 255, 190, 0>>

ExtractCmds == {0, 4}

ExtInit == FrameIdle /\ RespIdle /\ DevIdle /\ LinkIdle /\ ExtIdle /\ MoreIdle

(* one more piece of the reply arrives *)
AppendPiece ==
    /\ xCmd = -1
    /\ Len(xPieces) < MaxPieces
    /\ xPieces # <<real_device_capture>>
    /\ \E piece \in ExtractPieces :
         /\ xRaw' = xRaw \o piece
         /\ xPieces' = Append(xPieces, piece)
    /\ UNCHANGED <<xCmd, xFrames, xFrame, xCards, frameVars, respVars, devVars, linkVars, moreVars>>

(* the reply is the captured one *)
LoadCapture ==
    /\ xCmd = -1
    /\ xPieces = <<>>
    /\ xRaw' = real_device_capture
    /\ xPieces' = <<real_device_capture>>
    /\ UNCHANGED <<xCmd, xFrames, xFrame, xCards, frameVars, respVars, devVars, linkVars, moreVars>>

(* the reply is handed to both extractors, and to list_passive_targets of an
   S330 as the answer of its control read                                     *)
Extract ==
    /\ xCmd = -1
    /\ \E cmd \in ExtractCmds :
         /\ xCmd' = cmd
         /\ xFrames' = extract_all_felica_frames_from_pn532_response(xRaw, cmd)
         /\ xFrame' = extract_felica_from_pn532_response(xRaw, cmd)
    /\ xCards' = S330Model_list_passive_targets(
                    [MockTransport_new EXCEPT !.responses = <<xRaw>>],
                    "TypeF", sample_system_code, Len(xPieces) % 256).r
    /\ UNCHANGED <<xRaw, xPieces, frameVars, respVars, devVars, linkVars, moreVars>>

ExtNext == AppendPiece \/ LoadCapture \/ Extract

SpecExtract == ExtInit /\ [][ExtNext]_vars

Extracted == xCmd # -1

(* C15: every frame extract_all_felica_frames_from_pn532_response returns, and
   the frame extract_felica_from_pn532_response returns when it returns one,
   is accepted by Frame::decode and is 7 + LEN bytes long.                    *)
C15_FramesDecode ==
    Extracted =>
        /\ \A k \in 1..Len(xFrames) :
              /\ IsOk(Frame_decode(xFrames[k]))
              /\ Len(xFrames[k]) = 7 + At(xFrames[k], 3)
        /\ IsSome(xFrame) =>
              /\ IsOk(Frame_decode(xFrame.val))
              /\ Len(xFrame.val) = 7 + At(xFrame.val, 3)

(* a reply that holds a frame with a wrong checksum before a valid frame, of
   which only the valid one is returned                                       *)
C15_Witness ==
    /\ Extracted
    /\ Len(xPieces) >= 2
    /\ xPieces[1] = BadDcs(Frame_encode(polling_payload).val)
    /\ xPieces[2] = Frame_encode(second_payload).val
    /\ xFrames # <<>>
    /\ xFrames[1] = Frame_encode(second_payload).val

PollingFrames ==
    {Frame_encode(polling_payload).val, Frame_encode(second_payload).val}

(* the reply is D5 4B k f1 .. fk for valid frames fi whose payloads are not
   empty and do not start with 0xD5                                           *)
InListOfFrames ==
    /\ Len(xPieces) >= 2
    /\ xPieces[1] = <<213, 75, Len(xPieces) - 1>>
    /\ \A i \in 2..Len(xPieces) : xPieces[i] \in PlainFrames

(* the Type F card a Polling response payload describes *)
CardOfPayload(p) ==
    Card_new(Slice(p, 1, 9), Slice(p, 9, 17), At(p, 17) + 256 * At(p, 18))

(* C16: on the reply D5 4B k f1 .. fk the multi-frame extractor returns
   f1 .. fk in that order; when every fi is a Polling response,
   list_passive_targets for Type F returns the k cards of f1 .. fk in that
   order, each with the IDm, PMm and system code of its frame.                *)
C16_InListFrames ==
    Extracted /\ InListOfFrames =>
        /\ xFrames = Tail(xPieces)
        /\ (\A i \in 2..Len(xPieces) : xPieces[i] \in PollingFrames) =>
              xCards = Ok([i \in 1..(Len(xPieces) - 1) |->
                              CardOfPayload(Frame_decode(xPieces[i + 1]).val)])

(* the reply of the two-card test, with two cards returned in that order *)
C16_Witness ==
    /\ Extracted
    /\ xPieces = <<<<213, 75, 2>>, Frame_encode(polling_payload).val,
                   Frame_encode(second_payload).val>>
    /\ IsOk(xCards)
    /\ Len(xCards.val) = 2
    /\ xCards.val[1].idm = SampleIdm
    /\ xCards.val[2].idm = <<21, 22, 23, 24, 25, 26, 27, 28>>
    /\ xCards.val[2].system_code = 4369

(* the frames of the primary scan over the reply *)
PrimaryScan == scan_frames(xRaw, xCmd, 0)

(* the reply is the PN53x ACK followed by a valid frame whose payload starts
   with 0xD5 *)
AckThenWrapped == xPieces = <<pn532_ack, WrappedFrame>>

WrappedPayload == Frame_decode(WrappedFrame).val

(* the indexes after the first at which the payload holds expected_cmd + 1 *)
ResponseCodeAt ==
    {i \in 1..(Len(WrappedPayload) - 1) : At(WrappedPayload, i) = (xCmd + 1) % 256}

FirstResponseCodeAt == CHOOSE i \in ResponseCodeAt : \A j \in ResponseCodeAt : i <= j

CapturedPolling ==
    [kind |-> "Polling",
     fields |-> [idm |-> <<1, 18, 1, 1, 1, 1, 18, 236>>,
                 pmm |-> <<35, 170, 31, 1, 54, 66, 130, 71>>,
                 system_code |-> 39493]]

(* C17: the primary scan emits no frame whose length byte is zero; on the ACK
   followed by a valid frame whose payload starts with 0xD5 it skips the ACK
   and emits the framing of the payload from the first byte after the 0xD5
   that equals expected_cmd + 1; on the captured reply with expected_cmd = 0
   one of the frames returned decodes to the Polling response of the card
   that was read.                                                             *)
C17_PrimaryScan ==
    Extracted =>
        /\ \A k \in 1..Len(PrimaryScan) : At(PrimaryScan[k], 3) # 0
        /\ AckThenWrapped /\ ResponseCodeAt # {} =>
              /\ PrimaryScan =
                    <<Frame_encode(Suffix(WrappedPayload, FirstResponseCodeAt)).val>>
              /\ xFrames = PrimaryScan
        /\ xPieces = <<real_device_capture>> /\ xCmd = 0 =>
              \E k \in 1..Len(xFrames) :
                 decode_response_frame(0, xFrames[k]) = Ok(CapturedPolling)

(* the captured reply, extracted for Polling *)
C17_Witness ==
    /\ Extracted
    /\ xPieces = <<real_device_capture>>
    /\ xCmd = 0
    /\ Len(PrimaryScan) = 1
    /\ xFrames = PrimaryScan

-----------------------------------------------------------------------------
(* Properties of the handshakes.  They are stated on the state initialize
   leaves: the log of the transport calls made, and the outcome of each call,
   found by making the logged calls again on the transport as it was handed
   to the handle.                                                             *)

InitializeReturned == devCalls = <<"initialize">>

HLog == transport.log

(* the logged call op made on the transport t *)
Apply(t, op) ==
    CASE op = "reset" -> reset(t)
      [] op = "send" -> send(t, <<>>)
      [] op = "receive" -> receive(t)
      [] op = "vendor_control_write" -> vendor_control_write(t, 0, 0, 0, <<>>)
      [] op = "vendor_control_read" -> vendor_control_read(t, 0, 0, 0)

(* the transport after the first n logged calls *)
RECURSIVE After(_)
After(n) == IF n = 0 THEN transport0 ELSE Apply(After(n - 1), HLog[n]).t

(* the result of the n-th logged call *)
Outcome(n) == Apply(After(n - 1), HLog[n]).r

(* the n-th logged call returned a non-empty reply *)
Replied(n) == IsOk(Outcome(n)) /\ Outcome(n).val # <<>>

IsWrite(n) == HLog[n] = "vendor_control_write"

IsRead(n) == HLog[n] = "vendor_control_read"

IsReceive(n) == HLog[n] = "receive"

LastLogged == Len(HLog)

(* C18: the S310 handshake is at most 2 attempts, each a vendor write of
   [0x54] with request 1, value 0, index 0 followed by one vendor read; it
   ends with success at the first non-empty reply, with the error of a write
   that failed, or after the second read with that read's error, or with
   Timeout when that read returned an empty reply.                            *)
C18_S310Handshake ==
    InitializeReturned /\ devType = "S310" /\ ResetOk =>
        /\ LastLogged >= 2
        /\ LastLogged <= 1 + 2 * ATTEMPTS
        /\ \A n \in 2..LastLogged : IF n % 2 = 0 THEN IsWrite(n) ELSE IsRead(n)
        /\ \A k \in 1..Len(transport.vendor_calls) :
              transport.vendor_calls[k] = <<1, 0, 0, <<84>>>>
        /\ \A k \in 1..Len(transport.vendor_reads) :
              transport.vendor_reads[k] = <<1, 0, 0>>
        /\ \A n \in 2..(LastLogged - 1) :
              IF IsWrite(n) THEN IsOk(Outcome(n)) ELSE ~Replied(n)
        /\ IF IsWrite(LastLogged)
           THEN ~IsOk(Outcome(LastLogged)) /\ devRes = Outcome(LastLogged)
           ELSE IF Replied(LastLogged) THEN IsOk(devRes)
           ELSE /\ LastLogged = 1 + 2 * ATTEMPTS
                /\ devRes = IF IsOk(Outcome(LastLogged)) THEN Timeout
                            ELSE Outcome(LastLogged)

(* an S310 whose first read was empty and whose second read failed on the
   link *)
C18_Witness ==
    /\ InitializeReturned
    /\ devType = "S310"
    /\ LastLogged = 5
    /\ IsOk(Outcome(3))
    /\ Outcome(3).val = <<>>
    /\ Outcome(5) = UsbError
    /\ devRes = UsbError

(* the first logged call that returned a non-empty reply, 0 when none did *)
FirstReplied ==
    IF \E n \in 1..LastLogged : Replied(n)
    THEN CHOOSE n \in 1..LastLogged : Replied(n) /\ \A j \in 1..(n - 1) : ~Replied(j)
    ELSE 0

(* C19: the S320 handshake is at most 3 attempts; an attempt is a vendor
   write of [5C 01] with request 1 which, unless it fails and ends the
   handshake, is followed by one vendor read, and by one receive exactly when
   that read failed or returned nothing; the write of [5C 02] with request 2
   is made once, right after the first non-empty reply, as the last call; it
   is not made when no attempt got a reply, and initialize then fails.        *)
C19_S320Handshake ==
    InitializeReturned /\ devType = "S320" /\ ResetOk =>
        /\ Cardinality({n \in 2..LastLogged : IsWrite(n) /\ n # FirstReplied + 1})
              <= INIT_ATTEMPTS
        /\ IsWrite(2)
        /\ \A n \in 2..LastLogged :
              /\ IsWrite(n) \/ IsRead(n) \/ IsReceive(n)
              /\ IsWrite(n) /\ n # FirstReplied + 1 /\ IsOk(Outcome(n)) =>
                    n < LastLogged /\ IsRead(n + 1)
              /\ IsWrite(n) /\ ~IsOk(Outcome(n)) =>
                    n = LastLogged /\ devRes = Outcome(n)
              /\ IsRead(n) => IsWrite(n - 1)
              /\ IsRead(n) => (~Replied(n) <=> n < LastLogged /\ IsReceive(n + 1))
              /\ IsReceive(n) => IsRead(n - 1) /\ ~Replied(n - 1)
              /\ IsReceive(n) /\ ~Replied(n) /\ n < LastLogged => IsWrite(n + 1)
        /\ IF FirstReplied # 0
           THEN /\ LastLogged = FirstReplied + 1
                /\ IsWrite(LastLogged)
                /\ IsOk(Outcome(LastLogged)) =>
                      /\ IsOk(devRes)
                      /\ transport.vendor_calls[Len(transport.vendor_calls)]
                            = <<2, 0, 0, <<92, 2>>>>
                /\ \A k \in 1..(Len(transport.vendor_calls) - 1) :
                      transport.vendor_calls[k] = <<1, 0, 0, <<92, 1>>>>
           ELSE /\ ~IsOk(devRes)
                /\ \A k \in 1..Len(transport.vendor_calls) :
                      transport.vendor_calls[k] = <<1, 0, 0, <<92, 1>>>>

(* an S320 whose control read returned nothing, whose receive then returned
   a reply, and which sent the finalization next                              *)
C19_Witness ==
    /\ InitializeReturned
    /\ devType = "S320"
    /\ HLog = <<"reset", "vendor_control_write", "vendor_control_read", "receive",
                "vendor_control_write">>
    /\ ~Replied(3)
    /\ Replied(4)
    /\ IsOk(devRes)
    /\ transport.vendor_calls = <<<<1, 0, 0, <<92, 1>>>>, <<2, 0, 0, <<92, 2>>>>>>

(* C20: the S330 handshake returns success whatever its transfers return; it
   makes a vendor write of D4 32 01 01, one vendor read and a vendor write of
   D4 02, in this order and nothing after, so that at most one queued reply
   is removed from the transport.                                             *)
C20_S330Handshake ==
    InitializeReturned /\ devType = "S330" /\ ResetOk =>
        /\ IsOk(devRes)
        /\ devState = "Initialized"
        /\ HLog = <<"reset", "vendor_control_write", "vendor_control_read",
                    "vendor_control_write">>
        /\ transport.vendor_calls =
              (IF IsOk(Outcome(2)) THEN <<<<0, 0, 0, <<212, 50, 1, 1>>>>>> ELSE <<>>)
                 \o (IF IsOk(Outcome(4)) THEN <<<<0, 0, 0, <<212, 2>>>>>> ELSE <<>>)
        /\ \A k \in 1..Len(transport.vendor_reads) :
              transport.vendor_reads[k] = <<0, 0, 0>>
        /\ Len(transport.responses) >= Len(transport0.responses) - 1
        /\ transport.responses =
              IF IsOk(Outcome(3)) THEN Tail(transport0.responses)
              ELSE transport0.responses

(* an S330 whose first write failed on the link and whose read found no reply *)
C20_Witness ==
    /\ InitializeReturned
    /\ devType = "S330"
    /\ Outcome(2) = UsbError
    /\ Outcome(3) = Timeout
    /\ IsOk(devRes)
    /\ devState = "Initialized"

-----------------------------------------------------------------------------
(* The hooks of the device models, each called on its own: wrap_command,
   unwrap_response and list_passive_targets for Type A and Type B cards.      *)

MaxWrapLen == 2

(* payloads of a Polling command (first byte 0), of other commands, one that
   starts with 0xD4, and payloads of 255 and 256 bytes                        *)
WrapPayloads ==
    SeqsUpTo({0, 6, 212}, MaxWrapLen)
        \cup {Fill(6, FELICA_MAX_PAYLOAD_LEN), Fill(6, FELICA_MAX_PAYLOAD_LEN + 1)}

(* what the caller passes as the framed form: the frame of the payload when
   there is one, the payload itself, nothing, or a packet made for the PN53x  *)
WrapFramed(payload) ==
    {<<>>, <<212>>, <<212, 74, 1, 1>>, <<213, 212>>, payload}
        \cup (IF IsOk(Frame_encode(payload)) THEN {Frame_encode(payload).val} ELSE {})

(* replies of one or two pieces, and the captured one *)
UnwrapReplies ==
    ExtractPieces \cup {a \o b : a \in ExtractPieces, b \in ExtractPieces}
        \cup {<<>>, real_device_capture}

HookInit == FrameIdle /\ RespIdle /\ DevIdle /\ LinkIdle /\ ExtIdle /\ MoreIdle

WrapCommand ==
    /\ hCall = "none"
    /\ \E device_type \in DeviceTypes, payload \in WrapPayloads :
         \E framed \in WrapFramed(payload) :
            /\ hCall' = "wrap_command"
            /\ hArgs' = <<device_type, framed, payload>>
            /\ hOut' = wrap_command(device_type, framed, payload)
    /\ UNCHANGED <<frameVars, respVars, devVars, linkVars, extVars, cardVars, mOut>>

UnwrapResponse ==
    /\ hCall = "none"
    /\ \E device_type \in DeviceTypes, expected_cmd \in ExtractCmds, raw \in UnwrapReplies :
         /\ hCall' = "unwrap_response"
         /\ hArgs' = <<device_type, expected_cmd, raw>>
         /\ hOut' = unwrap_response(device_type, expected_cmd, raw)
    /\ UNCHANGED <<frameVars, respVars, devVars, linkVars, extVars, cardVars, mOut>>

(* Replies to InListPassiveTarget for Type A and Type B cards.  A target of a
   Type A reply is Tg, SENS_RES (2 bytes), SEL_RES, UID_LEN and the UID; a
   target of a Type B reply is Tg, the ATQB (12 bytes), the length of the
   ATTRIB response and that response.                                         *)

MaxTargets == 2

Uids == {<<>>, <<4, 5, 6, 7>>, <<1, 2, 3, 4, 5, 6, 7>>}

(* an ATQB: 0x50, the PUPI b, b+1, b+2, b+3, application data, protocol info *)
AtqbOf(b) == <<80, b, b + 1, b + 2, b + 3, 0, 0, 0, 0, 0, 128, 113>>

TargetsOf(card_type) ==
    IF card_type = "TypeA"
    THEN {[uid |-> u] : u \in Uids}
    ELSE {[atqb |-> AtqbOf(b), attrib |-> a] : b \in {16, 32}, a \in {<<>>, <<9>>}}

TargetBytes(card_type, tg, target) ==
    IF card_type = "TypeA"
    THEN <<tg, 0, 4, 8, Len(target.uid)>> \o target.uid
    ELSE <<tg>> \o target.atqb \o <<Len(target.attrib)>> \o target.attrib

TargetLists(card_type) == SeqsUpTo(TargetsOf(card_type), MaxTargets)

WellFormed(card_type, targets) ==
    <<PN532_CMD_PREFIX_DEVICE, PN532_RESP_INLIST_PASSIVE_TARGET, Len(targets)>>
        \o Flatten([k \in 1..Len(targets) |-> TargetBytes(card_type, k, targets[k])])

Prefixes(s) == {SubSeq(s, 1, n) : n \in 0..Len(s)}

(* the well-formed replies, each also cut short at every length, with another
   number of targets in its header, and with another response code           *)
TargetReplies(card_type) ==
    LET whole == {WellFormed(card_type, ts) : ts \in TargetLists(card_type)}
        renumbered == {[w EXCEPT ![3] = n] : w \in whole, n \in {0, 1, 3, 255}}
        recoded == {[w EXCEPT ![i] = 212] : w \in whole, i \in {1, 2}}
    IN  UNION {Prefixes(w) : w \in whole} \cup renumbered \cup recoded

(* the indexes of the reply the per-target loop of the Type A / Type B branch
   reads, from target n down                                                  *)
RECURSIVE ParseReads(_, _, _, _)
ParseReads(raw, card_type, n, pos) ==
    LET p1 == pos + 1
        b2 == p1 + 12
        b3 == IF b2 < Len(raw) THEN b2 + 1 + At(raw, b2) ELSE b2
        a2 == p1 + 3
        a3 == a2 + 1
    IN  IF n = 0 \/ pos >= Len(raw) THEN {}
        ELSE {pos} \cup
             (IF card_type = "TypeB"
              THEN IF p1 + 12 <= Len(raw)
                   THEN (p1..(b2 - 1)) \cup (IF b2 < Len(raw) THEN {b2} ELSE {})
                          \cup ParseReads(raw, card_type, n - 1, b3)
                   ELSE ParseReads(raw, card_type, n - 1, p1)
              ELSE IF p1 + 3 < Len(raw)
                   THEN {a2} \cup
                        (IF a3 + At(raw, a2) <= Len(raw)
                         THEN (a3..(a3 + At(raw, a2) - 1))
                                \cup ParseReads(raw, card_type, n - 1, a3 + At(raw, a2))
                         ELSE ParseReads(raw, card_type, n - 1, a3))
                   ELSE ParseReads(raw, card_type, n - 1, p1))

(* the indexes of the reply the Type A / Type B branch reads *)
TargetReads(raw, card_type) ==
    IF Len(raw) <= 4 THEN {}
    ELSE IF At(raw, 0) # PN532_CMD_PREFIX_DEVICE THEN {0}
    ELSE IF At(raw, 1) # PN532_RESP_INLIST_PASSIVE_TARGET THEN {0, 1}
    ELSE {0, 1, 2} \cup ParseReads(raw, card_type, At(raw, 2), 3)

(* list_passive_targets of an S330 whose control read returns the reply *)
ListTargets ==
    /\ hCall = "none"
    /\ \E card_type \in {"TypeA", "TypeB"}, max_targets \in 1..MaxTargets :
         \E raw \in TargetReplies(card_type) :
            /\ hCall' = "list_passive_targets"
            /\ hArgs' = <<card_type, raw, max_targets>>
            /\ hOut' = S330Model_list_passive_targets(
                          [MockTransport_new EXCEPT !.responses = <<raw>>],
                          card_type, sample_system_code, max_targets).r
    /\ UNCHANGED <<frameVars, respVars, devVars, linkVars, extVars, cardVars, mOut>>

(* the models that keep the default list_passive_targets of the trait *)
DefaultModels == {"S310", "S320", "Noop"}

(* list_passive_targets of a model that does not override it, on a transport
   with replies queued                                                        *)
ListDefault ==
    /\ hCall = "none"
    /\ \E model \in DefaultModels, card_type \in CardTypes,
          responses \in SeqsUpTo(DevResponses, MaxQueue) :
         LET t == [MockTransport_new EXCEPT !.responses = responses]
         IN  /\ hCall' = "default_list_passive_targets"
             /\ hArgs' = <<model, card_type, t>>
             /\ hOut' = Device_list_passive_targets(model, t, card_type,
                                                    sample_system_code, 1)
    /\ UNCHANGED <<frameVars, respVars, devVars, linkVars, extVars, cardVars, mOut>>

HookNext == WrapCommand \/ UnwrapResponse \/ ListTargets \/ ListDefault

SpecHook == HookInit /\ [][HookNext]_vars

-----------------------------------------------------------------------------
(* Properties of the hooks.                                                   *)

Wrapped == hCall = "wrap_command" /\ hArgs[1] = "S330"

Unwrapped == hCall = "unwrap_response" /\ hArgs[1] = "S330"

(* the three cases of the S330 wrap, the length byte being b *)
WrapShape(framed, payload, b) ==
    IF framed # <<>> /\ framed[1] = 212 THEN hOut = framed
    ELSE IF payload # <<>> /\ payload[1] = 0 THEN hOut = <<212, 74, 1, 1>> \o payload
    ELSE /\ Len(hOut) = 3 + Len(payload)
         /\ SubSeq(hOut, 1, 2) = <<212, 66>>
         /\ hOut[3] = b
         /\ SubSeq(hOut, 4, Len(hOut)) = payload

UnwrapShape ==
    LET found == extract_felica_from_pn532_response(hArgs[3], hArgs[2])
    IN  /\ IsOk(hOut)
        /\ hOut.val = IF IsSome(found) THEN found.val ELSE hArgs[3]

(* C21: the S330 wrap returns a framed form that starts with 0xD4 unchanged,
   else D4 4A 01 01 and the payload for a Polling payload, else D4 42, one
   byte equal to the length of the payload, and the payload; the S330 unwrap
   never fails and returns the frame of the single-frame extractor when there
   is one and the raw bytes otherwise.                                        *)
C21_Original ==
    /\ Wrapped => WrapShape(hArgs[2], hArgs[3], Len(hArgs[3]))
    /\ Unwrapped => UnwrapShape

(* the same with the length byte taken modulo 256, which is what a payload of
   up to 255 bytes makes of it                                                *)
C21_LengthByteWraps ==
    /\ Wrapped => WrapShape(hArgs[2], hArgs[3], Len(hArgs[3]) % 256)
    /\ Unwrapped => UnwrapShape

(* a payload of 256 bytes that is not a Polling payload has been wrapped *)
C21_Witness ==
    /\ Wrapped
    /\ Len(hArgs[3]) = FELICA_MAX_PAYLOAD_LEN + 1
    /\ hArgs[2] = hArgs[3]
    /\ hOut[3] = 0

Listed == hCall = "list_passive_targets"

(* the cards of the targets ts of a well-formed reply, in reply order *)
CardsOfTargets(card_type, ts) ==
    [k \in 1..Len(ts) |->
        IF card_type = "TypeA"
        THEN Card_new_type_a(ts[k].uid)
        ELSE Card_new_type_b(SubSeq(ts[k].atqb, 2, 5), ts[k].atqb)]

(* C22: for Type A and Type B and any reply, list_passive_targets of the S330
   reads no index outside the reply, returns no card unless the reply starts
   with D5 4B and has more than 4 bytes, and returns at most NbTg cards; a
   well-formed reply yields one card per target in reply order, a Type A card
   with the UID of UID_LEN bytes, a Type B card with the ATQB and with bytes
   1..5 of the ATQB as its UID.                                               *)
C22_TypeABTargets ==
    Listed =>
        LET card_type == hArgs[1]
            raw == hArgs[2]
        IN  /\ IsOk(hOut)
            /\ TargetReads(raw, card_type) \subseteq 0..(Len(raw) - 1)
            /\ ~(Len(raw) > 4 /\ SubSeq(raw, 1, 2) = <<213, 75>>) => hOut.val = <<>>
            /\ Len(raw) > 4 => Len(hOut.val) <= raw[3]
            /\ \A ts \in TargetLists(card_type) :
                  raw = WellFormed(card_type, ts) /\ Len(raw) > 4
                      => hOut.val = CardsOfTargets(card_type, ts)

(* two Type B targets, the first with an ATTRIB response, gave two cards *)
C22_Witness ==
    /\ Listed
    /\ hArgs[1] = "TypeB"
    /\ \E ts \in TargetLists("TypeB") :
          /\ Len(ts) = 2
          /\ ts[1].attrib # <<>>
          /\ hArgs[2] = WellFormed("TypeB", ts)
    /\ Len(hOut.val) = 2
    /\ hOut.val[2].uid = <<32, 33, 34, 35>>

ListedByDefault == hCall = "default_list_passive_targets"

(* C23: on the S310, the S320 and the no-op model list_passive_targets fails
   with the unsupported-operation error for every card type, sends nothing
   and consumes no queued response.                                           *)
C23_Original ==
    ListedByDefault =>
        /\ hOut.r.tag = "UnsupportedOperation"
        /\ hOut.t = hArgs[3]

(* the part that holds: the call fails and leaves the transport as it was *)
C23_NoTransportIO ==
    ListedByDefault =>
        /\ ~IsOk(hOut.r)
        /\ hOut.t = hArgs[3]

(* the no-op model was asked for Type F targets with two replies queued *)
C23_Witness ==
    /\ ListedByDefault
    /\ hArgs[1] = "Noop"
    /\ hArgs[2] = "TypeF"
    /\ Len(hArgs[3].responses) = 2
    /\ hOut.r = PollingFailed

-----------------------------------------------------------------------------
(* card/mod.rs and card/operations: the helpers of a Card, each run on an
   initialized handle of device type device_type over the transport t.        *)

REQUEST_SERVICE_RSP == 3

REQUEST_RESPONSE_RSP == 5

REQUEST_SYSTEM_RSP == 13

(* Response::response_code of a decoded response *)
response_code(resp) ==
    CASE resp.kind = "Polling" -> 1
      [] resp.kind = "RequestService" -> 3
      [] resp.kind = "RequestResponse" -> 5
      [] resp.kind = "ReadWithoutEncryption" -> 7
      [] resp.kind = "WriteWithoutEncryption" -> 9
      [] resp.kind = "SearchServiceCode" -> 11
      [] resp.kind = "RequestSystemCode" -> 13

IsFelica(card) == card.card_type = "TypeF"

(* the guard at the head of each helper of Card *)
Unsupported(t, name) ==
    [t |-> t,
     r |-> UnsupportedOperation(name \o " is only supported for FeliCa (Type F) cards")]

(* the match of read_blocks on what execute returned *)
read_blocks_matched(x) ==
    IF ~IsOk(x.r) THEN x
    ELSE IF x.r.val.kind = "ReadWithoutEncryption"
    THEN [t |-> x.t, r |-> Ok(x.r.val.fields.blocks)]
    ELSE [t |-> x.t, r |-> PollingFailed]

read_blocks(card, device_type, t, services, blocks) ==
    IF ~IsFelica(card) THEN Unsupported(t, "read_blocks")
    ELSE read_blocks_matched(
            Device_execute(device_type, t,
                           [kind |-> "ReadWithoutEncryption", idm |-> card.idm,
                            services |-> services, blocks |-> blocks]))

(* blocks.into_iter().next().ok_or(PollingFailed) *)
read_single_first(x) ==
    IF ~IsOk(x.r) THEN x
    ELSE IF x.r.val = <<>> THEN [t |-> x.t, r |-> PollingFailed]
    ELSE [t |-> x.t, r |-> Ok(x.r.val[1])]

read_single(card, device_type, t, service, block) ==
    IF ~IsFelica(card) THEN Unsupported(t, "read_single")
    ELSE read_single_first(
            read_blocks(card, device_type, t, <<service>>,
                        <<BlockElement_new(0, DirectAccessOrRead, block)>>))

(* the match of write_single and of write_blocks on what execute returned *)
write_matched(x) ==
    IF ~IsOk(x.r) THEN x
    ELSE IF x.r.val.kind # "WriteWithoutEncryption" THEN [t |-> x.t, r |-> PollingFailed]
    ELSE IF x.r.val.fields.statuses = <<>> THEN [t |-> x.t, r |-> InvalidLength(11, 0)]
    ELSE IF x.r.val.fields.statuses[1] # <<0, 0>>
    THEN [t |-> x.t,
          r |-> FelicaStatus(x.r.val.fields.statuses[1][1],
                             x.r.val.fields.statuses[1][2])]
    ELSE [t |-> x.t, r |-> Ok(<<>>)]

write_single(card, device_type, t, service, block, data) ==
    IF ~IsFelica(card) THEN Unsupported(t, "write_single")
    ELSE write_matched(
            Device_execute(device_type, t,
                           [kind |-> "WriteWithoutEncryption", idm |-> card.idm,
                            service |-> service,
                            block |-> BlockElement_new(0, DirectAccessOrRead, block),
                            data |-> data]))

(* a write_blocks that returns for an empty list before it looks at the card *)
write_blocks_EmptyFirst(card, device_type, t, service, blocks) ==
    IF blocks = <<>> THEN [t |-> t, r |-> Ok(<<>>)]
    ELSE IF ~IsFelica(card) THEN Unsupported(t, "write_blocks")
    ELSE write_matched(
            Device_execute(device_type, t,
                           [kind |-> "WriteWithoutEncryptionMulti", idm |-> card.idm,
                            services |-> <<service>>,
                            blocks |-> [i \in 1..Len(blocks) |-> blocks[i][1]],
                            data |-> [i \in 1..Len(blocks) |-> blocks[i][2]]]))

(* blocks is a sequence of pairs <<BlockElement, BlockData>> *)
write_blocks(card, device_type, t, service, blocks) ==
    IF ~IsFelica(card) THEN Unsupported(t, "write_blocks")
    ELSE IF blocks = <<>> THEN [t |-> t, r |-> Ok(<<>>)]
    ELSE write_matched(
            Device_execute(device_type, t,
                           [kind |-> "WriteWithoutEncryptionMulti", idm |-> card.idm,
                            services |-> <<service>>,
                            blocks |-> [i \in 1..Len(blocks) |-> blocks[i][1]],
                            data |-> [i \in 1..Len(blocks) |-> blocks[i][2]]]))

(* the match of the three request helpers: the response of the kind asked for
   with the IDm of the card gives the field, any other response an
   UnexpectedResponse                                                         *)
request_matched(x, idm, kind, rsp, field) ==
    IF ~IsOk(x.r) THEN x
    ELSE IF x.r.val.kind = kind /\ x.r.val.fields.idm = idm
    THEN [t |-> x.t, r |-> Ok(x.r.val.fields[field])]
    ELSE IF x.r.val.kind = kind THEN [t |-> x.t, r |-> UnexpectedResponse(rsp, rsp)]
    ELSE [t |-> x.t, r |-> UnexpectedResponse(rsp, response_code(x.r.val))]

request_service_versions(card, device_type, t, node_codes) ==
    IF ~IsFelica(card) THEN Unsupported(t, "request_service_versions")
    ELSE request_matched(
            Device_execute(device_type, t,
                           [kind |-> "RequestService", idm |-> card.idm,
                            node_codes |-> node_codes]),
            card.idm, "RequestService", REQUEST_SERVICE_RSP, "versions")

request_response_mode(card, device_type, t) ==
    IF ~IsFelica(card) THEN Unsupported(t, "request_response_mode")
    ELSE request_matched(
            Device_execute(device_type, t, [kind |-> "RequestResponse", idm |-> card.idm]),
            card.idm, "RequestResponse", REQUEST_RESPONSE_RSP, "mode")

request_system_codes(card, device_type, t) ==
    IF ~IsFelica(card) THEN Unsupported(t, "request_system_codes")
    ELSE request_matched(
            Device_execute(device_type, t, [kind |-> "RequestSystemCode", idm |-> card.idm]),
            card.idm, "RequestSystemCode", REQUEST_SYSTEM_RSP, "system_codes")

(* card/operations/service.rs: ServiceIterator.  An item of the iterator is
   None, Ok(code) for Some(Ok(code)) or the error e for Some(Err(e)).         *)

ServiceIterator_new == [current_index |-> 0, finished |-> FALSE]

(* u16::saturating_add(1) *)
saturating_add_one(index) == IF index = 65535 THEN 65535 ELSE index + 1

(* a next() that goes on asking after the absent response *)
next_matched_NeverFinished(it, x) ==
    IF IsOk(x.r) /\ x.r.val.kind = "SearchServiceCode" /\ x.r.val.fields.present
    THEN [t |-> x.t,
          it |-> [it EXCEPT !.current_index = saturating_add_one(@)],
          item |-> Ok(x.r.val.fields.code)]
    ELSE IF IsOk(x.r) /\ x.r.val.kind = "SearchServiceCode"
    THEN [t |-> x.t, it |-> it, item |-> None]
    ELSE IF IsOk(x.r)
    THEN [t |-> x.t, it |-> [it EXCEPT !.finished = TRUE],
          item |-> UnexpectedResponse(11, 0)]
    ELSE [t |-> x.t, it |-> it, item |-> x.r]

(* a next() that goes on asking after an error *)
next_matched_ErrorGoesOn(it, x) ==
    IF IsOk(x.r) /\ x.r.val.kind = "SearchServiceCode" /\ x.r.val.fields.present
    THEN [t |-> x.t,
          it |-> [it EXCEPT !.current_index = saturating_add_one(@)],
          item |-> Ok(x.r.val.fields.code)]
    ELSE IF IsOk(x.r) /\ x.r.val.kind = "SearchServiceCode"
    THEN [t |-> x.t, it |-> [it EXCEPT !.finished = TRUE], item |-> None]
    ELSE IF IsOk(x.r)
    THEN [t |-> x.t, it |-> [it EXCEPT !.finished = TRUE],
          item |-> UnexpectedResponse(11, 0)]
    ELSE [t |-> x.t, it |-> it, item |-> x.r]

(* the match of next() on what execute returned *)
next_matched(it, x) ==
    IF IsOk(x.r) /\ x.r.val.kind = "SearchServiceCode" /\ x.r.val.fields.present
    THEN [t |-> x.t,
          it |-> [it EXCEPT !.current_index = saturating_add_one(@)],
          item |-> Ok(x.r.val.fields.code)]
    ELSE IF IsOk(x.r) /\ x.r.val.kind = "SearchServiceCode"
    THEN [t |-> x.t, it |-> [it EXCEPT !.finished = TRUE], item |-> None]
    ELSE IF IsOk(x.r)
    THEN [t |-> x.t, it |-> [it EXCEPT !.finished = TRUE],
          item |-> UnexpectedResponse(11, 0)]
    ELSE [t |-> x.t, it |-> [it EXCEPT !.finished = TRUE], item |-> x.r]

ServiceIterator_next(card, device_type, t, it) ==
    IF it.finished THEN [t |-> t, it |-> it, item |-> None]
    ELSE IF ~IsFelica(card)
    THEN [t |-> t, it |-> [it EXCEPT !.finished = TRUE],
          item |-> UnsupportedOperation("Card does not have IDm (not a FeliCa card)")]
    ELSE next_matched(it,
            Device_execute(device_type, t,
                           [kind |-> "SearchServiceCode", idm |-> card.idm,
                            index |-> it.current_index]))

-----------------------------------------------------------------------------
(* A card on an initialized handle.  The transport holds the handshake reply
   and then replies of a card; at most one transfer after the handshake
   fails.                                                                     *)

MaxCardQueue == 2

MaxNext == 3

MaxCardFault == 2

OtherIdm == <<8, 7, 6, 5, 4, 3, 2, 1>>

Cards ==
    {Card_new(SampleIdm, SamplePmm, sample_system_code),
     Card_new_type_a(<<4, 5, 6, 7>>),
     Card_new_type_b(<<16, 17, 18, 19>>, <<80, 16, 17, 18, 19, 0, 0, 0, 0, 0, 128, 113>>)}

CardReplyKinds ==
    {"read", "write", "present", "present2", "absent", "versions", "mode", "system",
     "noise", "damaged"}

(* the response payload of each kind, from the card with the given IDm *)
CardReplyPayload(kind, idm) ==
    CASE kind = "read" -> <<7>> \o idm \o <<0, 0, 1>> \o Fill(65, 16)
      [] kind = "write" -> <<9>> \o idm \o <<0, 0>>
      [] kind = "present" -> <<11>> \o idm \o <<1, 17, 17>>
      [] kind = "present2" -> <<11>> \o idm \o <<1, 34, 34>>
      [] kind = "absent" -> <<11>> \o idm \o <<0>>
      [] kind = "versions" -> <<3>> \o idm \o <<1, 1, 16>>
      [] kind = "mode" -> <<5>> \o idm \o <<1>>
      [] kind = "system" -> <<13>> \o idm \o <<1, 154, 69>>
      [] kind = "noise" -> <<255>>
      [] kind = "damaged" -> <<11>> \o idm \o <<1, 17, 17>>

(* the frame of the payload; the damaged one has a wrong data checksum *)
CardReply(kind, idm) ==
    IF kind = "damaged"
    THEN BadDcs(Frame_encode(CardReplyPayload(kind, idm)).val)
    ELSE Frame_encode(CardReplyPayload(kind, idm)).val

(* queues of replies, all from the card itself or all from another card *)
(* runs of replies that carry a service code: the replies an iteration goes
   on after                                                                   *)
PresentRuns == SeqsUpTo({"present", "present2"}, MaxCardQueue - 1)

(* the kinds of the queued replies: a reply of any kind after a run of service
   codes, or before one                                                       *)
CardQueueKinds ==
    {<<>>} \cup {p \o <<k>> : p \in PresentRuns, k \in CardReplyKinds}
           \cup {<<k>> \o p : p \in PresentRuns, k \in CardReplyKinds}

CardQueues ==
    {[i \in 1..Len(kinds) |-> CardReply(kinds[i], idm)] :
        kinds \in CardQueueKinds, idm \in {SampleIdm, OtherIdm}}

(* the number of transfers of the handshake on a transport that answers it *)
HandshakeLen(device_type) ==
    Len(Device_initialize(device_type,
                          [MockTransport_new EXCEPT !.responses = <<<<170>>>>]).t.log)

(* no transfer fails, or the k-th transfer after the handshake does *)
CardFaults(device_type, card) ==
    {{}} \cup (IF IsFelica(card)
               THEN {{HandshakeLen(device_type) + k} : k \in 1..MaxCardFault}
               ELSE {})

NoIterator == None

CardInit ==
    /\ FrameIdle
    /\ RespIdle
    /\ LinkIdle
    /\ ExtIdle
    /\ HookIdle
    /\ MockIdle
    /\ cCard \in Cards
    /\ cIter = NoIterator
    /\ cItems = <<>>
    /\ devState = "Uninitialized"
    /\ devType \in DeviceTypes
    /\ \E q \in CardQueues :
         \E f \in CardFaults(devType, cCard) :
            transport = [MockTransport_new EXCEPT !.responses = <<<<170>>>> \o q,
                                                  !.faults = f]
    /\ transport0 = transport
    /\ devRes = None
    /\ devInits = 0
    /\ devCalls = <<>>
    /\ devArgs = <<>>
    /\ devPre = transport

(* the calls of the helpers, with the arguments of each *)
CardOps ==
    {[name |-> "read_blocks", services |-> <<4096>>,
      blocks |-> <<BlockElement_new(0, DirectAccessOrRead, 0)>>],
     [name |-> "read_single", service |-> 4096, block |-> 0],
     [name |-> "write_single", service |-> 4105, block |-> 0, data |-> Fill(66, 16)],
     [name |-> "write_blocks", service |-> 4105,
      blocks |-> <<<<BlockElement_new(0, DirectAccessOrRead, 0), Fill(66, 16)>>,
                   <<BlockElement_new(0, DirectAccessOrRead, 1), Fill(67, 16)>>>>],
     [name |-> "write_blocks", service |-> 4105, blocks |-> <<>>],
     [name |-> "request_service_versions", node_codes |-> <<4096>>],
     [name |-> "request_response_mode"],
     [name |-> "request_system_codes"]}

(* a helper of Card is called once, on the handle that initialize returned *)
HelperDue ==
    /\ devState = "Initialized"
    /\ devCalls = <<"initialize">>
    /\ cIter = NoIterator

HelperKept ==
    UNCHANGED <<devState, devType, transport0, devInits, frameVars, respVars,
                linkVars, extVars, hookVars, cardVars, mOut>>

OpsNamed(name) == {op \in CardOps : op.name = name}

ReadBlocks ==
    /\ HelperDue
    /\ \E op \in OpsNamed("read_blocks") :
          \E x \in {read_blocks(cCard, devType, transport, op.services, op.blocks)} :
              Returned(op.name, op, x)
    /\ HelperKept

ReadSingle ==
    /\ HelperDue
    /\ \E op \in OpsNamed("read_single") :
          \E x \in {read_single(cCard, devType, transport, op.service, op.block)} :
              Returned(op.name, op, x)
    /\ HelperKept

WriteSingle ==
    /\ HelperDue
    /\ \E op \in OpsNamed("write_single") :
          \E x \in {write_single(cCard, devType, transport, op.service, op.block,
                                op.data)} :
              Returned(op.name, op, x)
    /\ HelperKept

WriteBlocks ==
    /\ HelperDue
    /\ \E op \in OpsNamed("write_blocks") :
          \E x \in {write_blocks(cCard, devType, transport, op.service, op.blocks)} :
              Returned(op.name, op, x)
    /\ HelperKept

RequestServiceVersions ==
    /\ HelperDue
    /\ \E op \in OpsNamed("request_service_versions") :
          \E x \in {request_service_versions(cCard, devType, transport,
                                            op.node_codes)} :
              Returned(op.name, op, x)
    /\ HelperKept

RequestResponseMode ==
    /\ HelperDue
    /\ \E op \in OpsNamed("request_response_mode") :
          \E x \in {request_response_mode(cCard, devType, transport)} :
              Returned(op.name, op, x)
    /\ HelperKept

RequestSystemCodes ==
    /\ HelperDue
    /\ \E op \in OpsNamed("request_system_codes") :
          \E x \in {request_system_codes(cCard, devType, transport)} :
              Returned(op.name, op, x)
    /\ HelperKept

(* Card::services: the iterator borrows the handle *)
Services ==
    /\ devState = "Initialized"
    /\ devCalls = <<"initialize">>
    /\ cIter = NoIterator
    /\ cIter' = ServiceIterator_new
    /\ UNCHANGED <<cCard, cItems, devVars, frameVars, respVars, linkVars, extVars,
                   hookVars, mOut>>

(* ServiceIterator::next *)
IterNext ==
    /\ cIter # NoIterator
    /\ Len(cItems) < MaxNext
    /\ \E x \in {ServiceIterator_next(cCard, devType, transport, cIter)} :
          /\ Returned("next", cIter, [t |-> x.t, r |-> x.item])
          /\ cIter' = x.it
          /\ cItems' = Append(cItems, x.item)
    /\ UNCHANGED <<cCard, devState, devType, transport0, devInits, frameVars, respVars,
                   linkVars, extVars, hookVars, mOut>>

CardNext ==
    \/ Initialize
    \/ ReadBlocks
    \/ ReadSingle
    \/ WriteSingle
    \/ WriteBlocks
    \/ RequestServiceVersions
    \/ RequestResponseMode
    \/ RequestSystemCodes
    \/ Services
    \/ IterNext

SpecCard == CardInit /\ [][CardNext]_vars

-----------------------------------------------------------------------------
(* Properties of the card helpers.                                            *)

(* the handle came out of initialize with the replies of the card queued *)
CardReady == devState = "Initialized"

(* the buffers sent since initialize returned *)
SentSinceInit ==
    Suffix(transport.sent, Len(Device_initialize(devType, transport0).t.sent))

(* the replies of the card as they were queued, the handshake reply left out *)
QueuedReplies == Tail(transport0.responses)

SearchCommand(index) ==
    [kind |-> "SearchServiceCode", idm |-> cCard.idm, index |-> index]

(* what the n-th request of the iterator puts on the wire *)
SearchRequest(n) ==
    wrap_command(devType, encode_command_frame(SearchCommand(n - 1)).val,
                 Command_encode(SearchCommand(n - 1)))

Iterating == cIter # NoIterator /\ IsFelica(cCard)

(* the calls of next() that yielded a code *)
Yields == {i \in 1..Len(cItems) : IsOk(cItems[i])}

(* the i-th call of next() came back with None after codes only *)
EndedAt(i) ==
    /\ i \in 1..Len(cItems)
    /\ cItems[i] = None
    /\ \A j \in 1..(i - 1) : IsOk(cItems[j])

(* C24: the n-th request of a ServiceIterator on a Type F card is
   SearchServiceCode with index n-1; the present codes are yielded in request
   order; at the first absent response next() returns None and no further
   request is issued, so that the requests sent are the codes yielded plus
   one.                                                                       *)
C24_ServiceIterator ==
    Iterating =>
        /\ \A n \in 1..Len(SentSinceInit) : SentSinceInit[n] = SearchRequest(n)
        /\ \A i \in Yields :
              /\ \A j \in 1..(i - 1) : j \in Yields
              /\ LET reply == decode_response_frame(10, QueuedReplies[i])
                 IN  /\ IsOk(reply)
                     /\ reply.val.fields.present
                     /\ cItems[i] = Ok(reply.val.fields.code)
              /\ cIter.current_index >= i
        /\ \A i \in 1..Len(cItems) :
              EndedAt(i) =>
                  /\ ~decode_response_frame(10, QueuedReplies[i]).val.fields.present
                  /\ \A j \in i..Len(cItems) : cItems[j] = None
                  /\ Len(SentSinceInit) = i
                  /\ Len(SentSinceInit) = Cardinality(Yields) + 1
                  /\ cIter.finished

(* two codes were yielded in the order of their replies, the third call found
   the card gone, and the calls made three requests                           *)
C24_Witness ==
    /\ Iterating
    /\ Len(cItems) = 3
    /\ cItems[1] = Ok(8738)
    /\ cItems[2] = Ok(4369)
    /\ cItems[3] = Timeout
    /\ Len(SentSinceInit) = 3

(* a code was yielded, the next response was absent, and a further call of
   next() returned None without a request                                     *)
C24_WitnessEnd ==
    /\ Iterating
    /\ cItems = <<Ok(4369), None, None>>
    /\ Len(SentSinceInit) = 2

IsError(item) == ~IsOk(item) /\ item # None

(* the calls of next() that yielded an error *)
Errors == {i \in 1..Len(cItems) : IsError(cItems[i])}

LastItem == cItems[Len(cItems)]

(* a call of next() before the last one ended the iteration *)
EndedBefore == \E i \in 1..(Len(cItems) - 1) : ~IsOk(cItems[i])

(* C25: the error of a failed request of the ServiceIterator is yielded once,
   as the item of that call, and every later call of next() returns None
   without a send or a receive; so does every call after the one that ended
   the iteration on an absent response.                                       *)
C25_ErrorOnceThenNone ==
    (cIter # NoIterator /\ cItems # <<>>) =>
        /\ Cardinality(Errors) <= 1
        /\ \A i \in 1..Len(cItems) :
              ~IsOk(cItems[i]) => \A j \in (i + 1)..Len(cItems) : cItems[j] = None
        /\ EndedBefore => LastItem = None /\ transport = devPre
        /\ (~EndedBefore /\ IsFelica(cCard)) =>
              LET x == Device_execute(devType, devPre, SearchCommand(Len(cItems) - 1))
              IN  /\ transport = x.t
                  /\ ~IsOk(x.r) => LastItem = x.r
                  /\ IsError(LastItem) => LastItem = x.r

(* a code, then a reply with a wrong checksum, then two calls that return None
   and leave the transport alone                                              *)
C25_Witness ==
    /\ Iterating
    /\ Len(cItems) = 3
    /\ IsOk(cItems[1])
    /\ cItems[2].tag = "ChecksumMismatch"
    /\ cItems[3] = None
    /\ transport = devPre
    /\ Len(SentSinceInit) = 2

HelperNames ==
    {"read_blocks", "read_single", "write_single", "write_blocks",
     "request_service_versions", "request_response_mode", "request_system_codes"}

(* the last call on the handle was one of the helpers of Card *)
HelperCalled == devCalls # <<>> /\ LastCall \in HelperNames

(* the transport is as initialize left it *)
UntouchedSinceInit == transport = Device_initialize(devType, transport0).t

(* C26: on a Type A or Type B card each of the seven helpers fails with
   UnsupportedOperation, and the iterator of services() yields an
   UnsupportedOperation error, without a send or a receive.                   *)
C26_NonFelicaUnsupported ==
    (CardReady /\ ~IsFelica(cCard)) =>
        /\ UntouchedSinceInit
        /\ HelperCalled => devRes.tag = "UnsupportedOperation"
        /\ cItems # <<>> => cItems[1].tag = "UnsupportedOperation"

(* write_blocks with no blocks on a Type B card, with replies queued *)
C26_Witness ==
    /\ CardReady
    /\ cCard.card_type = "TypeB"
    /\ HelperCalled
    /\ LastCall = "write_blocks"
    /\ LastArg.blocks = <<>>
    /\ Len(transport.responses) = 2
    /\ devRes.tag = "UnsupportedOperation"

(* the command code of the request the last call made *)
HelperCode ==
    CASE LastCall \in {"read_blocks", "read_single"} -> 6
      [] LastCall \in {"write_single", "write_blocks"} -> 8
      [] LastCall = "next" -> 10
      [] LastCall = "request_service_versions" -> 2
      [] LastCall = "request_response_mode" -> 4
      [] LastCall = "request_system_codes" -> 12

(* the last call was a helper or next() on a Type F card, and the reply it
   took from the queue is a well-formed response to its command that carries
   the IDm of another card                                                    *)
AnsweredByOtherCard ==
    /\ CardReady
    /\ IsFelica(cCard)
    /\ devCalls # <<>>
    /\ LastCall \in HelperNames \cup {"next"}
    /\ CallLog = <<"send", "receive">>
    /\ Len(transport.responses) = Len(devPre.responses) - 1
    /\ LET reply == decode_response_frame(HelperCode, Head(devPre.responses))
       IN  IsOk(reply) /\ reply.val.fields.idm # cCard.idm

(* C27: for every helper of a card, a well-formed response of the right kind
   whose IDm differs from the IDm of the card gives an UnexpectedResponse
   error and no data.                                                         *)
C27_Original == AnsweredByOtherCard => devRes.tag = "UnexpectedResponse"

(* the part that holds: the three request helpers compare the IDm *)
C27_RequestHelpers ==
    (AnsweredByOtherCard /\ HelperCode \in {2, 4, 12}) =>
        devRes = UnexpectedResponse(HelperCode + 1, HelperCode + 1)

(* read_single returned the block of another card *)
C27_Witness ==
    /\ AnsweredByOtherCard
    /\ LastCall = "read_single"
    /\ devRes = Ok(Fill(65, 16))

-----------------------------------------------------------------------------
(* transport/mock.rs: the rest of MockTransport, and transport/traits.rs: the
   default methods of Transport.                                              *)

set_control_failures(t, n) == [t EXCEPT !.control_failures = n]

push_response(t, resp) == [t EXCEPT !.responses = Append(@, resp)]

control_write(t, data) ==
    IF Faulty(t) THEN [t |-> Logged(t, "control_write"), r |-> UsbError]
    ELSE [t |-> [Logged(t, "control_write") EXCEPT !.sent = Append(@, data)],
          r |-> Ok(<<>>)]

(* a control read that takes a queued response while it reports the failure *)
control_read_FailureConsumes(t) ==
    IF Faulty(t) THEN [t |-> Logged(t, "control_read"), r |-> UsbError]
    ELSE IF t.control_failures > 0
    THEN [t |-> [Logged(t, "control_read") EXCEPT !.control_failures = @ - 1,
                                                  !.responses = IF @ = <<>> THEN @
                                                                ELSE Tail(@)],
          r |-> Timeout]
    ELSE IF t.responses = <<>> THEN [t |-> Logged(t, "control_read"), r |-> Timeout]
    ELSE [t |-> [Logged(t, "control_read") EXCEPT !.responses = Tail(@)],
          r |-> Ok(Head(t.responses))]

control_read(t) ==
    IF Faulty(t) THEN [t |-> Logged(t, "control_read"), r |-> UsbError]
    ELSE IF t.control_failures > 0
    THEN [t |-> [Logged(t, "control_read") EXCEPT !.control_failures = @ - 1],
          r |-> Timeout]
    ELSE IF t.responses = <<>> THEN [t |-> Logged(t, "control_read"), r |-> Timeout]
    ELSE [t |-> [Logged(t, "control_read") EXCEPT !.responses = Tail(@)],
          r |-> Ok(Head(t.responses))]

(* The default methods of the trait, on a transport t whose send and receive
   are those of the mock (the SharedTransport of the tests of the handle).    *)
Transport_control_write(t, data) == send(t, data)

Transport_control_read(t) == receive(t)

(* a default vendor write that leaves the data out *)
Transport_vendor_control_write_NoData(t, request, value, index, data) ==
    Transport_control_write(t, <<>>)

Transport_vendor_control_write(t, request, value, index, data) ==
    Transport_control_write(t, data)

Transport_vendor_control_read(t, request, value, index) == Transport_control_read(t)

-----------------------------------------------------------------------------
(* The mock transport driven call by call.  Every buffer written or pushed
   holds the number of the call that carries it.                              *)

MaxMockCalls == 4

MaxFailures == 2

(* the request, value and index of a vendor control transfer *)
VendorParams == {<<0, 0, 0>>, <<1, 513, 65535>>}

MockInit ==
    /\ FrameIdle
    /\ RespIdle
    /\ LinkIdle
    /\ ExtIdle
    /\ MoreIdle
    /\ devState = "Uninitialized"
    /\ devType = "S320"
    /\ transport = MockTransport_new
    /\ transport0 = transport
    /\ devRes = None
    /\ devInits = 0
    /\ devCalls = <<>>
    /\ devArgs = <<>>
    /\ devPre = transport

(* a call on the transport has returned x *)
Called(call, arg, x) ==
    /\ Len(devCalls) < MaxMockCalls
    /\ Returned(call, arg, x)
    /\ mOut' = Append(mOut, x.r)
    /\ UNCHANGED <<devState, devType, transport0, devInits, frameVars, respVars,
                   linkVars, extVars, hookVars, cardVars>>

ThisCall == Len(devCalls) + 1

PushResponse ==
    Called("push_response", <<100 + ThisCall>>,
           [t |-> push_response(transport, <<100 + ThisCall>>), r |-> None])

SetControlFailures ==
    \E n \in 0..MaxFailures :
        Called("set_control_failures", n,
               [t |-> set_control_failures(transport, n), r |-> None])

MockWrite ==
    \/ Called("send", <<ThisCall>>, send(transport, <<ThisCall>>))
    \/ Called("control_write", <<ThisCall>>, control_write(transport, <<ThisCall>>))
    \/ \E p \in VendorParams :
          Called("vendor_control_write", <<ThisCall>>,
                 vendor_control_write(transport, p[1], p[2], p[3], <<ThisCall>>))

MockRead ==
    \/ Called("receive", <<>>, receive(transport))
    \/ Called("control_read", <<>>, control_read(transport))
    \/ \E p \in VendorParams :
          Called("vendor_control_read", p,
                 vendor_control_read(transport, p[1], p[2], p[3]))

MockNext == PushResponse \/ SetControlFailures \/ MockWrite \/ MockRead

SpecMock == MockInit /\ [][MockNext]_vars

-----------------------------------------------------------------------------
(* Properties of the mock transport.                                          *)

WriteCalls == {"send", "control_write", "vendor_control_write"}

ReadCalls == {"receive", "control_read", "vendor_control_read"}

(* the arguments of the first n calls whose name is in names, in call order *)
RECURSIVE ArgsOf(_, _)
ArgsOf(n, names) ==
    IF n = 0 THEN <<>>
    ELSE ArgsOf(n - 1, names) \o (IF devCalls[n] \in names THEN <<devArgs[n]>> ELSE <<>>)

(* the buffers the first n calls read, in call order *)
RECURSIVE ReadOf(_)
ReadOf(n) ==
    IF n = 0 THEN <<>>
    ELSE ReadOf(n - 1) \o (IF devCalls[n] \in ReadCalls /\ IsOk(mOut[n])
                           THEN <<mOut[n].val>> ELSE <<>>)

(* the number of the last set_control_failures among the first n calls, or 0 *)
RECURSIVE LastSet(_)
LastSet(n) ==
    IF n = 0 THEN 0
    ELSE IF devCalls[n] = "set_control_failures" THEN n
    ELSE LastSet(n - 1)

(* the failures the last set_control_failures before call n asked for *)
Asked(n) == IF LastSet(n - 1) = 0 THEN 0 ELSE devArgs[LastSet(n - 1)]

(* the control reads between that set_control_failures and call n *)
ControlReadsBefore(n) ==
    Cardinality({i \in (LastSet(n - 1) + 1)..(n - 1) : devCalls[i] = "control_read"})

MockCalled == devCalls # <<>> /\ Len(mOut) = Len(devCalls)

(* the last call was a read of an empty queue *)
ReadEmpty == MockCalled /\ LastCall \in ReadCalls /\ devPre.responses = <<>>

(* the transport but for the journal of the calls made on it *)
StateOf(t) == [t EXCEPT !.log = <<>>]

FifoOnce == ReadOf(Len(devCalls)) \o transport.responses = ArgsOf(Len(devCalls), {"push_response"})

SentInOrder == transport.sent = ArgsOf(Len(devCalls), WriteCalls)

(* the last call was a control read that a simulated failure was due to *)
FailureDue ==
    /\ MockCalled
    /\ LastCall = "control_read"
    /\ ControlReadsBefore(Len(devCalls)) < Asked(Len(devCalls))

(* the last call was a control read past the simulated failures *)
FailuresOver ==
    /\ MockCalled
    /\ LastCall = "control_read"
    /\ ControlReadsBefore(Len(devCalls)) >= Asked(Len(devCalls))

SimulatedFailures ==
    /\ FailureDue => devRes = Timeout /\ transport.responses = devPre.responses
    /\ FailuresOver /\ devPre.responses # <<>> =>
          /\ devRes = Ok(Head(devPre.responses))
          /\ transport.responses = Tail(devPre.responses)

(* C28 as stated: on the mock transport, responses come back in push order,
   each once; a read of an empty queue fails with Timeout and changes no
   state; written buffers are appended to the sent log in call order; and the
   N control reads after set_control_failures(N) fail with Timeout without
   taking a response, the one after them returning the head of the queue.     *)
C28_Original ==
    MockCalled =>
        /\ FifoOnce
        /\ ReadEmpty => devRes = Timeout /\ StateOf(transport) = StateOf(devPre)
        /\ SentInOrder
        /\ SimulatedFailures

(* C28: as above, but a read of an empty queue fails with Timeout and leaves
   the response queue and the sent log as they were: vendor_control_read has
   recorded its parameters and control_read has used up a simulated failure. *)
C28_MockTransport ==
    MockCalled =>
        /\ FifoOnce
        /\ ReadEmpty => /\ devRes = Timeout
                        /\ transport.responses = devPre.responses
                        /\ transport.sent = devPre.sent
                        /\ StateOf(transport) =
                              [StateOf(devPre) EXCEPT
                                  !.vendor_reads = transport.vendor_reads,
                                  !.control_failures = transport.control_failures]
        /\ SentInOrder
        /\ SimulatedFailures

(* two simulated failures with a response queued, then the response *)
C28_Witness ==
    /\ devCalls = <<"push_response", "set_control_failures", "control_read", "control_read">>
    /\ devArgs[2] = 1
    /\ mOut[3] = Timeout
    /\ mOut[4] = Ok(<<101>>)
    /\ transport.responses = <<>>

-----------------------------------------------------------------------------
(* A transport that implements send, receive, reset and device_type only, over
   a mock it shares: every other method is the default of the trait.          *)

MaxSharedCalls == 3

(* the calls of the shared mock that fail with a USB error *)
SharedFaults == {{}, {1}, {2}}

SharedInit ==
    /\ FrameIdle
    /\ RespIdle
    /\ LinkIdle
    /\ ExtIdle
    /\ MoreIdle
    /\ devState = "Uninitialized"
    /\ devType = "S320"
    /\ \E f \in SharedFaults, n \in 0..1 :
          transport = [set_control_failures(MockTransport_new, n) EXCEPT !.faults = f]
    /\ transport0 = transport
    /\ devRes = None
    /\ devInits = 0
    /\ devCalls = <<>>
    /\ devArgs = <<>>
    /\ devPre = transport

SharedPush == Len(devCalls) < MaxSharedCalls /\ PushResponse

SharedWrite ==
    /\ Len(devCalls) < MaxSharedCalls
    /\ \/ Called("send", <<ThisCall>>, send(transport, <<ThisCall>>))
       \/ Called("Transport_control_write", <<ThisCall>>,
                 Transport_control_write(transport, <<ThisCall>>))
       \/ \E p \in VendorParams :
             Called("Transport_vendor_control_write", <<ThisCall>>,
                    Transport_vendor_control_write(transport, p[1], p[2], p[3],
                                                   <<ThisCall>>))

SharedRead ==
    /\ Len(devCalls) < MaxSharedCalls
    /\ \/ Called("receive", <<>>, receive(transport))
       \/ Called("Transport_control_read", <<>>, Transport_control_read(transport))
       \/ \E p \in VendorParams :
             Called("Transport_vendor_control_read", p,
                    Transport_vendor_control_read(transport, p[1], p[2], p[3]))

SharedNext == SharedPush \/ SharedWrite \/ SharedRead

SpecShared == SharedInit /\ [][SharedNext]_vars

DefaultWrites == {"Transport_control_write", "Transport_vendor_control_write"}

DefaultReads == {"Transport_control_read", "Transport_vendor_control_read"}

(* the last call was a default write, or a default read *)
WroteByDefault == MockCalled /\ LastCall \in DefaultWrites

ReadByDefault == MockCalled /\ LastCall \in DefaultReads

(* C29: on a transport that implements send, receive, reset and device_type
   only, control_write and vendor_control_write of a buffer have the effect
   and the result of send of that buffer, and control_read and
   vendor_control_read those of receive, whatever the request, value and
   index: no vendor parameters are recorded and no simulated control-read
   failure is used up.                                                        *)
C29_DefaultsRoute ==
    /\ WroteByDefault =>
          /\ transport = send(devPre, LastArg).t
          /\ devRes = send(devPre, LastArg).r
    /\ ReadByDefault =>
          /\ transport = receive(devPre).t
          /\ devRes = receive(devPre).r
    /\ MockCalled =>
          /\ transport.vendor_calls = <<>>
          /\ transport.vendor_reads = <<>>
          /\ transport.control_failures = transport0.control_failures

(* a default vendor read has taken the queued response though a control-read
   failure is pending on the mock, and a default vendor write has been logged *)
C29_Witness ==
    /\ devCalls = <<"push_response", "Transport_vendor_control_write",
                    "Transport_vendor_control_read">>
    /\ transport0.control_failures = 1
    /\ devArgs[3] = <<1, 513, 65535>>
    /\ devRes = Ok(<<101>>)
    /\ transport.sent = <<<<2>>>>
    /\ transport.responses = <<>>

-----------------------------------------------------------------------------
(* protocol/checksum.rs: the two checksums applied to lengths and payloads.   *)

MaxSumLen == 3

(* bytes whose sums pass 255 and 511 *)
SumBytes == {0, 1, 127, 128, 255}

ChecksumInputs == SeqsUpTo(SumBytes, MaxSumLen)

ChecksumInit == FrameIdle /\ RespIdle /\ DevIdle /\ LinkIdle /\ ExtIdle /\ MoreIdle

Lcs ==
    /\ hCall = "none"
    /\ \E n \in Byte :
          /\ hCall' = "lcs"
          /\ hArgs' = <<n>>
          /\ hOut' = lcs(n)
    /\ UNCHANGED <<frameVars, respVars, devVars, linkVars, extVars, cardVars, mOut>>

Dcs ==
    /\ hCall = "none"
    /\ \E b \in ChecksumInputs :
          /\ hCall' = "dcs"
          /\ hArgs' = b
          /\ hOut' = dcs(b)
    /\ UNCHANGED <<frameVars, respVars, devVars, linkVars, extVars, cardVars, mOut>>

ChecksumNext == Lcs \/ Dcs

SpecChecksum == ChecksumInit /\ [][ChecksumNext]_vars

(* the sum of the bytes of s, as an integer *)
RECURSIVE ByteSum(_)
ByteSum(s) == IF s = <<>> THEN 0 ELSE Head(s) + ByteSum(Tail(s))

(* C30: the length checksum of a length n in 0..255 and n add up to a
   multiple of 256, and so do the data checksum of a byte sequence and the
   sum of its bytes; both checksums are bytes.                                *)
C30_ChecksumsCancel ==
    /\ hCall = "lcs" => hOut \in Byte /\ (hOut + hArgs[1]) % 256 = 0
    /\ hCall = "dcs" => hOut \in Byte /\ (hOut + ByteSum(hArgs)) % 256 = 0

(* a payload whose bytes add up to 638: the sum has wrapped twice *)
C30_Witness ==
    /\ hCall = "dcs"
    /\ hArgs = <<255, 255, 128>>
    /\ hOut = 130

-----------------------------------------------------------------------------
(* protocol/commands and types.rs: the encoders of the write commands and of
   a block element, applied to the values a caller can build.                 *)

(* u16::MAX, the largest block number and service code *)
U16_MAX == 65535

MaxWriteBlocks == 2

(* AccessMode as u8 *)
AccessModes == {0, 1, DirectAccessOrRead}

ServiceIndexes == {0, 255}

ServiceCodes == {0, 4105, U16_MAX}

(* block numbers below, at and above the wrap of the low byte *)
WriteBlockNumbers == {0, 255, 256, 511, U16_MAX}

WriteData == {Fill(0, 16), Fill(66, 16), [i \in 1..16 |-> 240 + i - 1]}

WriteCommands ==
    {[kind |-> "WriteWithoutEncryption", idm |-> idm, service |-> service,
      block |-> BlockElement_new(si, am, bn), data |-> data] :
        idm \in {SampleIdm, <<8, 7, 6, 5, 4, 3, 2, 1>>}, service \in ServiceCodes,
        si \in ServiceIndexes, am \in AccessModes, bn \in WriteBlockNumbers,
        data \in WriteData}

(* n blocks 0 .. n-1 of the services, with data 41.., 42.. *)
WriteMultiCommands ==
    {[kind |-> "WriteWithoutEncryptionMulti", idm |-> SampleIdm, services |-> services,
      blocks |-> [i \in 1..n |-> BlockElement_new(0, am, i - 1)],
      data |-> [i \in 1..n |-> Fill(64 + i, 16)]] :
        services \in {<<4105>>, <<4105, 8201>>}, am \in AccessModes,
        n \in 0..MaxWriteBlocks}

(* the multi-block command with the one service, block and data of cmd *)
AsMulti(cmd) ==
    [kind |-> "WriteWithoutEncryptionMulti", idm |-> cmd.idm, services |-> <<cmd.service>>,
     blocks |-> <<cmd.block>>, data |-> <<cmd.data>>]

EncodeInit == FrameIdle /\ RespIdle /\ DevIdle /\ LinkIdle /\ ExtIdle /\ MoreIdle

EncodeKept ==
    UNCHANGED <<frameVars, respVars, devVars, linkVars, extVars, cardVars, mOut>>

(* Command::command_code and Command::encode of a single-block write *)
EncodeWrite ==
    /\ hCall = "none"
    /\ \E cmd \in WriteCommands :
          /\ hCall' = "encode_write"
          /\ hArgs' = cmd
          /\ hOut' = <<command_code(cmd), Command_encode(cmd)>>
    /\ EncodeKept

(* Command::command_code and Command::encode of a multi-block write *)
EncodeWriteMulti ==
    /\ hCall = "none"
    /\ \E cmd \in WriteMultiCommands :
          /\ hCall' = "encode_write_multi"
          /\ hArgs' = cmd
          /\ hOut' = <<command_code(cmd), Command_encode(cmd)>>
    /\ EncodeKept

(* BlockElement::new(..).encode() *)
EncodeBlockElement ==
    /\ hCall = "none"
    /\ \E si \in ServiceIndexes, am \in AccessModes, bn \in 0..U16_MAX :
          /\ hCall' = "BlockElement_encode"
          /\ hArgs' = BlockElement_new(si, am, bn)
          /\ hOut' = BlockElement_encode(BlockElement_new(si, am, bn))
    /\ EncodeKept

EncodeNext == EncodeWrite \/ EncodeWriteMulti \/ EncodeBlockElement

SpecEncode == EncodeInit /\ [][EncodeNext]_vars

(* the low and the high byte of a u16 *)
LeBytes(v) == <<v % 256, v \div 256>>

(* C31: the payload of a single-block write is the payload of the multi-block
   write with that one service, block element and data block: 08, the IDm, 01,
   the service code low byte first, 01, the three bytes of the element and the
   sixteen data bytes; both commands have the command code 0x08.              *)
C31_SingleIsMultiOfOne ==
    /\ hCall = "encode_write" =>
          /\ hOut = <<command_code(AsMulti(hArgs)), Command_encode(AsMulti(hArgs))>>
          /\ hOut[1] = 8
          /\ hOut[2] = <<8>> \o hArgs.idm \o <<1>> \o LeBytes(hArgs.service) \o <<1>>
                          \o <<hArgs.block.service_index, hArgs.block.access_mode,
                               hArgs.block.block_number % 256>>
                          \o hArgs.data
    /\ hCall = "encode_write_multi" => hOut[1] = 8 /\ hOut[2][1] = 8

(* a single-block write of block 511 of service 0x1009 *)
C31_Witness ==
    /\ hCall = "encode_write"
    /\ hArgs.service = 4105
    /\ hArgs.block = BlockElement_new(255, 1, 511)
    /\ hArgs.data = Fill(66, 16)
    /\ hOut[2] = <<8, 1, 2, 3, 4, 5, 6, 7, 8, 1, 9, 16, 1, 255, 1, 255>> \o Fill(66, 16)

(* the element with the same service index and access mode and the block
   number n *)
Renumbered(blk, n) == BlockElement_new(blk.service_index, blk.access_mode, n)

(* C32: BlockElement::encode gives the three bytes service index, access mode
   (0, 1 or 2) and block number modulo 256 for every block number 0..65535:
   elements whose block numbers differ by a multiple of 256 encode alike, and
   no element is encoded in two bytes.                                        *)
C32_ThreeBytes ==
    hCall = "BlockElement_encode" =>
        /\ Len(hOut) = 3
        /\ hOut = <<hArgs.service_index, hArgs.access_mode, hArgs.block_number % 256>>
        /\ hOut[2] \in {0, 1, 2}
        /\ hOut[3] \in Byte
        /\ hOut = BlockElement_encode(Renumbered(hArgs, hArgs.block_number % 256))
        /\ hArgs.block_number + 256 <= U16_MAX =>
              hOut = BlockElement_encode(Renumbered(hArgs, hArgs.block_number + 256))

(* block 0x01FF encodes as block 0xFF does *)
C32_Witness ==
    /\ hCall = "BlockElement_encode"
    /\ hArgs = BlockElement_new(0, 0, 511)
    /\ hOut = <<0, 0, 255>>
    /\ hOut = BlockElement_encode(BlockElement_new(0, 0, 255))

-----------------------------------------------------------------------------
(* rcs956/multi_frame.rs: partition_unframed_targets applied to remainders of
   InListPassiveTarget replies.                                               *)

MaxRemLen == 5

MaxParts == 3

(* remainders past the longest payload of a frame: the expected byte all
   over, or at the first, the third and the last place only                  *)
LongRems ==
    {Fill(1, 256), Fill(1, 257), Fill(1, 510), Fill(1, 511),
     [i \in 1..257 |-> IF i \in {1, 3, 257} THEN 1 ELSE 0],
     [i \in 1..258 |-> IF i \in {1, 3, 258} THEN 1 ELSE 0]}

PartitionInputs ==
    {<<rem, r, n>> : rem \in SeqsUpTo({1, 2}, MaxRemLen), r \in {1, 2}, n \in 1..MaxParts}
    \cup {<<rem, 1, n>> : rem \in LongRems, n \in 1..2}

PartitionInit == FrameIdle /\ RespIdle /\ DevIdle /\ LinkIdle /\ ExtIdle /\ MoreIdle

Partition ==
    /\ hCall = "none"
    /\ \E in \in PartitionInputs :
          /\ hCall' = "partition_unframed_targets"
          /\ hArgs' = in
          /\ hOut' = partition_unframed_targets(in[1], in[2], in[3])
    /\ UNCHANGED <<frameVars, respVars, devVars, linkVars, extVars, cardVars, mOut>>

PartitionNext == Partition

SpecPartition == PartitionInit /\ [][PartitionNext]_vars

Partitioned == hCall = "partition_unframed_targets"

(* the ways of writing len as a sum of n positive lengths, in order *)
RECURSIVE Compositions(_, _)
Compositions(len, n) ==
    IF n = 1 THEN (IF len >= 1 THEN {<<len>>} ELSE {})
    ELSE UNION {{<<k>> \o c : c \in Compositions(len - k, n - 1)} : k \in 1..(len - (n - 1))}

(* the place in s before the k-th chunk of the lengths lens *)
RECURSIVE StartOf(_, _)
StartOf(lens, k) == IF k = 1 THEN 0 ELSE StartOf(lens, k - 1) + lens[k - 1]

(* every chunk of rem cut by the lengths lens starts with r and has at most
   255 bytes                                                                  *)
GoodCut(rem, r, lens) ==
    \A k \in 1..Len(lens) : rem[StartOf(lens, k) + 1] = r /\ lens[k] <= 255

(* a is b, or is longer than b at the first chunk where they differ *)
LexAtLeast(a, b) ==
    \/ a = b
    \/ \E k \in 1..Len(a) : a[k] > b[k] /\ \A j \in 1..(k - 1) : a[j] = b[j]

ChunkLens(chunks) == [k \in 1..Len(chunks) |-> Len(chunks[k])]

(* C33: a partition that partition_unframed_targets(rem, r, n) returns for
   n >= 1 has n non-empty chunks that make up rem, each starting with r and of
   at most 255 bytes, and its first chunk is the longest that any such
   partition has, and so on for the chunks after it; it returns none only if
   there is no such partition.                                                *)
C33_GreedyPartition ==
    Partitioned =>
        LET rem == hArgs[1]
            r == hArgs[2]
            n == hArgs[3]
            good == {c \in Compositions(Len(rem), n) : GoodCut(rem, r, c)}
        IN  IF IsSome(hOut)
            THEN /\ Len(hOut.val) = n
                 /\ Flatten(hOut.val) = rem
                 /\ \A k \in 1..n : hOut.val[k] # <<>>
                 /\ ChunkLens(hOut.val) \in good
                 /\ \A c \in good : LexAtLeast(ChunkLens(hOut.val), c)
            ELSE /\ hOut = None
                 /\ good = {}

(* 257 bytes in two chunks: the first cannot be 256 bytes long, so the search
   falls back to the cut before the third byte                                *)
C33_Witness ==
    /\ Partitioned
    /\ Len(hArgs[1]) = 257
    /\ hArgs[1][2] = 0
    /\ hArgs[3] = 2
    /\ IsSome(hOut)
    /\ ChunkLens(hOut.val) = <<2, 255>>

-----------------------------------------------------------------------------
(* S330Model::list_passive_targets on a transport that holds one reply, or
   none, and may fail at the write or at the read.                            *)

MaxListFrames == 3

(* what a reply to InListPassiveTarget is made of after its header: frames of
   Polling responses, a frame of another response, a frame with a wrong
   checksum and a Polling response without a frame                            *)
ListPieces ==
    {Frame_encode(polling_payload).val, Frame_encode(second_payload).val,
     Frame_encode(request_response_payload).val,
     BadDcs(Frame_encode(polling_payload).val), polling_payload}

ListReplies ==
    {h \o Flatten(ps) : h \in InListHeaders \cup {<<>>},
                        ps \in SeqsUpTo(ListPieces, MaxListFrames)}
    \cup {WellFormed("TypeA", <<[uid |-> <<4, 5, 6, 7>>]>>),
          WellFormed("TypeB", <<[atqb |-> AtqbOf(16), attrib |-> <<>>]>>)}

(* the write fails, the read fails, or neither *)
ListFaults == {{}, {1}, {2}}

ListInit ==
    /\ FrameIdle
    /\ RespIdle
    /\ LinkIdle
    /\ ExtIdle
    /\ MoreIdle
    /\ devState = "Initialized"
    /\ devType = "S330"
    /\ \E q \in {<<>>} \cup {<<raw>> : raw \in ListReplies}, f \in ListFaults :
          transport = [MockTransport_new EXCEPT !.responses = q, !.faults = f]
    /\ transport0 = transport
    /\ devRes = None
    /\ devInits = 0
    /\ devCalls = <<>>
    /\ devArgs = <<>>
    /\ devPre = transport

(* DeviceModel::list_passive_targets of the S330 model *)
ListPassive ==
    /\ devCalls = <<>>
    /\ \E card_type \in CardTypes, max_targets \in {1, 2} :
          \E x \in {S330Model_list_passive_targets(transport, card_type,
                                                   sample_system_code, max_targets)} :
              Called("list_passive_targets", <<card_type, max_targets>>, x)

ListNext == ListPassive

SpecList == ListInit /\ [][ListNext]_vars

ListReturned == devCalls = <<"list_passive_targets">>

(* the InListPassiveTarget command of the last call *)
InListCommand ==
    <<212, 74, LastArg[2]>>
        \o (CASE LastArg[1] = "TypeA" -> <<0>>
              [] LastArg[1] = "TypeB" -> <<3>>
              [] LastArg[1] = "TypeF" ->
                    <<1, 255, 255, 0, 0, 0, sample_system_code % 256,
                      sample_system_code \div 256, 0, 0>>)

(* the response that the normal decode, the first or the second recovery gets
   from a candidate frame, in that order; none if all three fail              *)
Recovered(frame) ==
    LET inner == extract_felica_from_pn532_response(frame, 0)
        rewrapped == Frame_encode(frame)
    IN  IF IsOk(decode_response_frame(0, frame))
        THEN <<decode_response_frame(0, frame).val>>
        ELSE IF /\ frame # <<>>
                /\ frame[1] = 213
                /\ IsSome(inner)
                /\ IsOk(decode_response_frame(0, inner.val))
        THEN <<decode_response_frame(0, inner.val).val>>
        ELSE IF IsOk(rewrapped) /\ IsOk(decode_response_frame(0, rewrapped.val))
        THEN <<decode_response_frame(0, rewrapped.val).val>>
        ELSE <<>>

(* the cards of the candidate frames that are not dropped, in their order *)
RECURSIVE KeptCards(_)
KeptCards(frames) ==
    IF frames = <<>> THEN <<>>
    ELSE (IF Recovered(Head(frames)) = <<>> THEN <<>>
          ELSE <<Card_new(Recovered(Head(frames))[1].fields.idm,
                          Recovered(Head(frames))[1].fields.pmm,
                          Recovered(Head(frames))[1].fields.system_code)>>)
         \o KeptCards(Tail(frames))

(* C34: list_passive_targets of the S330 does one vendor write of the
   InListPassiveTarget command and then one vendor read, and nothing else on
   the transport; a failed write ends the call with its error before the read,
   a failed read ends it with its error; a reply without a decodable target
   gives the empty list; for Type F a candidate frame is left out only when
   the normal decode and both recoveries fail, the other candidates giving
   their cards in their order.                                                *)
C34_ListPassiveTargets ==
    ListReturned =>
        /\ transport.sent = IF transport.log[1] = "vendor_control_write" /\ 1 \notin transport.faults
                            THEN <<InListCommand>> ELSE <<>>
        /\ \/ /\ transport.log = <<"vendor_control_write">>
              /\ 1 \in transport.faults
              /\ devRes = UsbError
              /\ transport.responses = devPre.responses
           \/ /\ transport.log = <<"vendor_control_write", "vendor_control_read">>
              /\ 1 \notin transport.faults
              /\ transport.vendor_calls = <<<<0, 0, 0, InListCommand>>>>
              /\ IF 2 \in transport.faults
                 THEN devRes = UsbError /\ transport.responses = devPre.responses
                 ELSE IF devPre.responses = <<>>
                 THEN devRes = Timeout
                 ELSE /\ transport.responses = <<>>
                      /\ IsOk(devRes)
                      /\ LastArg[1] = "TypeF" =>
                            devRes.val =
                               KeptCards(extract_all_felica_frames_from_pn532_response(
                                             devPre.responses[1], 0))

(* three frames of which the second, a RequestResponse reply, is left out *)
C34_Witness ==
    /\ ListReturned
    /\ LastArg[1] = "TypeF"
    /\ devPre.responses = <<<<213, 75, 3>> \o Frame_encode(polling_payload).val
                              \o Frame_encode(request_response_payload).val
                              \o Frame_encode(second_payload).val>>
    /\ devRes = Ok(<<CardOfPayload(polling_payload), CardOfPayload(second_payload)>>)

(* no target can be decoded: the empty list *)
C34_WitnessEmpty ==
    /\ ListReturned
    /\ LastArg[1] = "TypeF"
    /\ devPre.responses = <<<<213, 75, 1>> \o BadDcs(Frame_encode(polling_payload).val)>>
    /\ devRes = Ok(<<>>)

-----------------------------------------------------------------------------
(* transport/usb/mod.rs: UsbTransport::send. The handle is modelled by the
   outcomes its successive writes will have (plan) and by the calls made on
   it (log).                                                                  *)

PN532_CMD_PREFIX_HOST == 212

MaxUsbWrites == 6

(* rusb::Error values a write can return *)
RusbErrors == {"Io", "Pipe"}

UsbPlans == [1..MaxUsbWrites -> {"ok"} \cup RusbErrors]

WritesOf(h) == SelectSeq(h.log, LAMBDA c : c.op \in {"write_bulk", "write_interrupt", "write_control"})

(* DeviceHandle::write_bulk, write_interrupt and write_control: the call is
   logged and has the outcome the plan gives to this write *)
usb_write(h, op, bytes) ==
    [h |-> [h EXCEPT !.log = Append(@, [op |-> op, data |-> bytes, ms |-> 0])],
     r |-> h.plan[Len(WritesOf(h)) + 1]]

(* DeviceHandle::clear_halt followed by the sleep of 20 * attempt ms *)
clear_halt_and_sleep(h, attempt) ==
    [h EXCEPT !.log = @ \o <<[op |-> "clear_halt", data |-> <<>>, ms |-> 0],
                             [op |-> "sleep", data |-> <<>>, ms |-> 20 * attempt]>>]

(* From rusb::Error for Error *)
UsbFrom(e) == [UsbError EXCEPT !.msg = e]

(* one pass of the retry loop with the bytes it writes: write_bulk, then
   write_interrupt; `done` is the return of Ok(()), otherwise the pass ends
   with clear_halt, the sleep and `continue` *)
usb_write_pair(h, bytes, attempt) ==
    LET bulk == usb_write(h, "write_bulk", bytes)
        intr == usb_write(bulk.h, "write_interrupt", bytes)
    IN  IF bulk.r = "ok" THEN [h |-> bulk.h, done |-> TRUE, last |-> "none"]
        ELSE IF intr.r = "ok" THEN [h |-> intr.h, done |-> TRUE, last |-> bulk.r]
        ELSE [h |-> clear_halt_and_sleep(intr.h, attempt), done |-> FALSE, last |-> intr.r]

(* the loop `for attempt in 1..=3` of send and the return after it *)
RECURSIVE usb_send_attempts(_, _, _, _)
usb_send_attempts(h, data, attempt, last_rusb) ==
    IF attempt > 3
    THEN [h |-> h, r |-> IF last_rusb # "none" THEN UsbFrom(last_rusb) ELSE Timeout]
    ELSE LET framed == Frame_encode(data)
             pass == IF data # <<>> /\ At(data, 0) = PN532_CMD_PREFIX_HOST /\ IsOk(framed)
                     THEN usb_write_pair(h, framed.val, attempt)
                     ELSE usb_write_pair(h, data, attempt)
         IN  IF pass.done THEN [h |-> pass.h, r |-> Ok(<<>>)]
             ELSE usb_send_attempts(pass.h, data, attempt + 1, pass.last)

(* UsbTransport::send *)
UsbTransport_send(h, out_ep, data) ==
    IF IsSome(out_ep)
    THEN usb_send_attempts(h, data, 1, "none")
    ELSE LET w == usb_write(h, "write_control", data)
         IN  [h |-> w.h, r |-> IF w.r = "ok" THEN Ok(<<>>) ELSE UsbFrom(w.r)]

(* buffers with and without the host prefix, and one too long to frame *)
UsbBuffers ==
    {<<>>, <<PN532_CMD_PREFIX_HOST, 2>>, <<PN532_CMD_PREFIX_HOST>>, <<6, 0>>, <<0, 0, 255, 0, 255, 0>>,
     <<PN532_CMD_PREFIX_HOST>> \o Fill(0, 255)}

UsbInit == FrameIdle /\ RespIdle /\ DevIdle /\ LinkIdle /\ ExtIdle /\ MoreIdle

(* a send on a transport with the OUT endpoint 0x02 *)
UsbSend ==
    /\ hCall = "none"
    /\ \E plan \in UsbPlans, data \in UsbBuffers :
          /\ hCall' = "send"
          /\ hArgs' = data
          /\ hOut' = UsbTransport_send([plan |-> plan, log |-> <<>>], Some(2), data)
    /\ EncodeKept

(* a send on a transport without an OUT endpoint *)
UsbSendControl ==
    /\ hCall = "none"
    /\ \E plan \in UsbPlans, data \in UsbBuffers :
          /\ hCall' = "send_control"
          /\ hArgs' = data
          /\ hOut' = UsbTransport_send([plan |-> plan, log |-> <<>>], None, data)
    /\ EncodeKept

UsbNext == UsbSend \/ UsbSendControl

SpecUsb == UsbInit /\ [][UsbNext]_vars

UsbLog == hOut.h.log

UsbWrites == WritesOf(hOut.h)

(* the writes go in pairs, bulk then interrupt, the last pair may lack its
   interrupt write *)
BulkThenInterrupt ==
    \A i \in 1..Len(UsbWrites) :
        UsbWrites[i].op = IF i % 2 = 1 THEN "write_bulk" ELSE "write_interrupt"

(* the outcome of the i-th write of the call *)
WriteOutcome(i) == hOut.h.plan[i]

(* what holds of a send with an OUT endpoint: at most three passes of bulk
   then interrupt, all with the same bytes, which are the framed form when
   the buffer starts with 0xD4 and can be framed and the caller's bytes
   otherwise; Ok at the first write that succeeds; clear_halt after each
   failed pass; the last error after three failed passes *)
UsbSendPasses ==
    hCall = "send" =>
        LET n == Len(UsbWrites)
            bytes == IF hArgs # <<>> /\ hArgs[1] = PN532_CMD_PREFIX_HOST
                        /\ IsOk(Frame_encode(hArgs))
                     THEN Frame_encode(hArgs).val ELSE hArgs
            halts == Len(SelectSeq(UsbLog, LAMBDA c : c.op = "clear_halt"))
        IN  /\ n \in 1..6
            /\ BulkThenInterrupt
            /\ \A i \in 1..n : UsbWrites[i].data = bytes
            /\ \A i \in 1..(n - 1) : WriteOutcome(i) # "ok"
            /\ IsOk(hOut.r) <=> WriteOutcome(n) = "ok"
            /\ ~IsOk(hOut.r) => n = 6 /\ hOut.r = UsbFrom(WriteOutcome(6))
            /\ halts = IF IsOk(hOut.r) THEN (n - 1) \div 2 ELSE 3

(* C35: a send with a known OUT endpoint makes at most three attempts of a
   bulk and then an interrupt write of the caller's bytes, returns Ok at the
   first write that succeeds, calls clear_halt after each failed attempt and
   returns the last USB error after three failed attempts; the framed form of
   a buffer that starts with 0xD4 is written only in addition to the caller's
   bytes, never in place of them.                                             *)
C35_Original ==
    hCall = "send" =>
        LET n == Len(UsbWrites)
            raw == SelectSeq(UsbWrites, LAMBDA c : c.data = hArgs)
            halts == Len(SelectSeq(UsbLog, LAMBDA c : c.op = "clear_halt"))
        IN  /\ \A i \in 1..(n - 1) : WriteOutcome(i) # "ok"
            /\ IsOk(hOut.r) <=> WriteOutcome(n) = "ok"
            /\ ~IsOk(hOut.r) => hOut.r = UsbFrom(WriteOutcome(n))
            /\ Len(raw) <= 6
            /\ \A i \in 1..Len(raw) :
                  raw[i].op = IF i % 2 = 1 THEN "write_bulk" ELSE "write_interrupt"
            /\ ~IsOk(hOut.r) => Len(raw) = 6 /\ halts = 3
            /\ \A i \in 1..n : UsbWrites[i].data # hArgs =>
                  \E j \in 1..n : UsbWrites[j].data = hArgs

(* D4 02 is sent while every write fails: six writes of the framed form, three
   clear_halt calls, the error of the sixth write, and no write of D4 02 *)
C35_Witness ==
    /\ hCall = "send"
    /\ hArgs = <<PN532_CMD_PREFIX_HOST, 2>>
    /\ hOut.r = UsbFrom("Pipe")
    /\ Len(UsbWrites) = 6
    /\ \A i \in 1..6 : UsbWrites[i].data = <<0, 0, 255, 2, 254, 212, 2, 42, 0>>
    /\ Len(SelectSeq(UsbLog, LAMBDA c : c.op = "clear_halt")) = 3
-----------------------------------------------------------------------------
(* Device::execute with a command whose payload does not fit a frame, and the
   length byte of the InCommunicateThru envelope of the S330.                 *)

(* the payload of the command that the last execute ran *)
LastPayload == Command_encode(LastCmd)

(* the last execute sent an InCommunicateThru envelope *)
SentEnvelope ==
    /\ CallSent # <<>>
    /\ Len(CallSent[1]) >= 3
    /\ SubSeq(CallSent[1], 1, 2) = <<212, 66>>

(* C36: an execute whose command payload is longer than 255 bytes returns
   InvalidLength before any transport call: nothing is sent, no queued reply
   is consumed and the transport is as it was; so the length byte of every
   D4 42 envelope that execute sends on the S330 is the length of the payload
   that follows it.                                                           *)
C36_OversizeRefused ==
    Executed =>
        /\ Len(LastPayload) > FELICA_MAX_PAYLOAD_LEN =>
              /\ devRes = InvalidLength(FELICA_MAX_PAYLOAD_LEN, Len(LastPayload))
              /\ CallLog = <<>>
              /\ transport.sent = devPre.sent
              /\ transport.responses = devPre.responses
              /\ transport = devPre
        /\ (devType = "S330" /\ SentEnvelope) =>
              /\ Len(LastPayload) <= FELICA_MAX_PAYLOAD_LEN
              /\ CallSent[1][3] = Len(LastPayload)
              /\ CallSent[1] = <<212, 66, Len(LastPayload)>> \o LastPayload

(* an oversize RequestService on an S330 with a reply queued: refused, and the
   reply is still queued *)
C36_Witness ==
    /\ Executed
    /\ devType = "S330"
    /\ Len(LastPayload) = 2 * OversizeNodes + 10
    /\ Len(LastPayload) > FELICA_MAX_PAYLOAD_LEN
    /\ devRes.tag = "InvalidLength"
    /\ devPre.responses # <<>>
    /\ transport = devPre

(* a RequestResponse on an S330 goes out in the envelope D4 42 09 *)
C36_WitnessEnvelope ==
    /\ Executed
    /\ devType = "S330"
    /\ LastCmd.kind = "RequestResponse"
    /\ CallSent = <<<<212, 66, 9, 4>> \o SampleIdm>>

-----------------------------------------------------------------------------
(* Response::decode for the command codes that are not supported.  The
   addition `expected_cmd + 1` of the fall-through arm is checked in a build
   with overflow checks (the dev and test profiles) and wraps in a build
   without them (the release profile).                                        *)

UnknownCmds == Byte \ SupportedCmds

(* payloads for an expected command: none, the wrapped response code alone or
   before an IDm, and other first bytes *)
UnknownPayloads(cmd) ==
    {<<>>} \cup {<<b>> \o rest : b \in {0, 1, (cmd + 1) % 256}, rest \in {<<>>, SampleIdm}}

(* Response::decode as built with or without overflow checks *)
Response_decode_built(overflow_checks, expected_cmd, data) ==
    LET r == Response_decode(expected_cmd, data)
    IN  IF r = Panic /\ expected_cmd \notin SupportedCmds /\ ~overflow_checks
        THEN UnexpectedResponse((expected_cmd + 1) % 256, At(data, 0))
        ELSE r

UnknownInit == FrameIdle /\ RespIdle /\ DevIdle /\ LinkIdle /\ ExtIdle /\ MoreIdle

(* Response::decode(expected_cmd, data) with an unsupported expected_cmd *)
DecodeUnknown ==
    /\ hCall = "none"
    /\ \E cmd \in UnknownCmds, overflow_checks \in BOOLEAN :
          \E data \in UnknownPayloads(cmd) :
             /\ hCall' = "decode"
             /\ hArgs' = [cmd |-> cmd, data |-> data, overflow_checks |-> overflow_checks]
             /\ hOut' = Response_decode_built(overflow_checks, cmd, data)
    /\ EncodeKept

UnknownNext == DecodeUnknown

SpecUnknown == UnknownInit /\ [][UnknownNext]_vars

(* what holds: InvalidLength for an empty payload, UnexpectedResponse with
   expected_cmd + 1 and the first byte otherwise, except that 0xFF with a
   payload starting with 0x00 panics when overflow is checked and reports the
   expected code 0x00 when it is not *)
UnknownRefused ==
    hCall = "decode" =>
        IF hArgs.data = <<>> THEN hOut = InvalidLength(1, 0)
        ELSE IF hArgs.cmd = 255 /\ hArgs.data[1] = 0 /\ hArgs.overflow_checks
        THEN hOut = Panic
        ELSE hOut = UnexpectedResponse((hArgs.cmd + 1) % 256, hArgs.data[1])

(* C38: for every expected_cmd that is not one of the seven supported codes
   and every payload, Response::decode returns UnexpectedResponse or
   InvalidLength and never panics or overflows, also for expected_cmd = 0xFF
   with a payload that starts with 0x00.                                      *)
C38_Original ==
    hCall = "decode" => hOut.tag \in {"UnexpectedResponse", "InvalidLength"}

(* expected_cmd = 0xFF and the payload 00 in a build with overflow checks *)
C38_Witness ==
    /\ hCall = "decode"
    /\ hArgs = [cmd |-> 255, data |-> <<0>>, overflow_checks |-> TRUE]
    /\ hOut = Panic

-----------------------------------------------------------------------------
(* Frame::encode after Frame::decode.                                         *)

(* the receiver accepted the bytes on the wire *)
FrameAccepted == FrameDecoded /\ fDec.tag = "Ok"

(* C39: every byte sequence that Frame::decode accepts is the frame that
   Frame::encode makes of the payload decoded from it, so a payload has one
   wire frame only and no other sequence is accepted for it.                  *)
C39_DecodeThenEncode ==
    FrameAccepted =>
        /\ Frame_encode(fDec.val) = Ok(fWire)
        /\ fDec.val = fPayload => Ok(fWire) = fEnc

(* two bytes of the frame of 00 00 were overwritten, the payload byte by 01 and
   the data checksum by FF: the bytes are accepted as the frame of 01 00 *)
C39_Witness ==
    /\ FrameAccepted
    /\ fKind = "damaged"
    /\ fPayload = <<0, 0>>
    /\ fWire = <<0, 0, 255, 2, 254, 1, 0, 255, 0>>
    /\ fDec.val = <<1, 0>>
-----------------------------------------------------------------------------
(* A ServiceIterator in use on an initialized handle.  The iterator has
   yielded current_index codes so far (each yield below the top index adds
   one); the card's next replies are queued.                                  *)

MaxIterReplies == 3

(* a fresh iterator, and one that has yielded 65534 codes *)
IterStarts == {0, U16_MAX - 1}

IterQueues ==
    {[i \in 1..Len(kinds) |-> CardReply(kinds[i], SampleIdm)] :
        kinds \in SeqsUpTo({"present", "present2", "absent"}, MaxIterReplies)}

IterInit ==
    /\ FrameIdle
    /\ RespIdle
    /\ LinkIdle
    /\ ExtIdle
    /\ HookIdle
    /\ MockIdle
    /\ cCard = Card_new(SampleIdm, SamplePmm, sample_system_code)
    /\ cIter \in {[ServiceIterator_new EXCEPT !.current_index = i] : i \in IterStarts}
    /\ cItems = <<>>
    /\ devState = "Initialized"
    /\ devType \in DeviceTypes
    /\ \E q \in IterQueues : transport = [MockTransport_new EXCEPT !.responses = q]
    /\ transport0 = transport
    /\ devRes = None
    /\ devInits = 1
    /\ devCalls = <<>>
    /\ devArgs = <<>>
    /\ devPre = transport

IterRunNext == IterNext

SpecIter == IterInit /\ [][IterRunNext]_vars

(* the index with which the i-th call of next() of this run found the iterator *)
IndexBefore(i) == devArgs[i].current_index

(* the index with which the i-th call of next() left the iterator *)
IndexAfter(i) == IF i < Len(cItems) THEN devArgs[i + 1].current_index ELSE cIter.current_index

(* the calls of next() of this run that sent a request *)
Requests == {i \in 1..Len(cItems) : ~devArgs[i].finished}

(* what holds of the index: a yield adds one below the top index and leaves
   the top index as it is, and nothing else changes it *)
IterSaturates ==
    \A i \in 1..Len(cItems) :
        /\ IndexAfter(i) = IF IsOk(cItems[i]) /\ IndexBefore(i) < U16_MAX
                           THEN IndexBefore(i) + 1 ELSE IndexBefore(i)
        /\ (i = Len(cItems) /\ IsOk(cItems[i])) => ~cIter.finished

(* C37: every run of a ServiceIterator ends: the index strictly increases with
   each yielded code, so no index is requested twice, and the iterator stops
   after at most 65,536 requests even when every reply is a present one.      *)
C37_Original ==
    /\ \A i \in 1..Len(cItems) : IsOk(cItems[i]) => IndexAfter(i) > IndexBefore(i)
    /\ \A i, j \in Requests : i < j => IndexBefore(i) # IndexBefore(j)
    /\ Cardinality(Requests) > 0 =>
          IndexBefore(1) + Cardinality(Requests) <= U16_MAX + 1

(* after 65534 codes the card goes on answering present: the requests ask for
   the indexes 65534, 65535 and 65535 again, each yields a code, and the
   iterator is not finished and still at 65535 *)
C37_Witness ==
    /\ Len(cItems) = 3
    /\ \A i \in 1..3 : IsOk(cItems[i])
    /\ <<IndexBefore(1), IndexBefore(2), IndexBefore(3)>> = <<U16_MAX - 1, U16_MAX, U16_MAX>>
    /\ cIter = [current_index |-> U16_MAX, finished |-> FALSE]
    /\ Len(CallSent) = 1
    /\ transport.sent[2] = transport.sent[3]

-----------------------------------------------------------------------------
(* The loops of the extractors, one iteration at a time.  An iteration gives
   the position of the next one (next), whether the loop ends with it (done),
   the index expressions it evaluates as ranges lo..hi of the buffer (reads;
   a single index k is k..k+1) and the frames it pushes (out).                *)

MaxWalkPieces == 3

MaxWalkSteps == 40

(* s[k] when k is an index of s *)
ByteAt(s, k) == IF HasIndex(s, k) THEN At(s, k) ELSE 0

LoopEnds(pos, reads) == [next |-> pos, done |-> TRUE, reads |-> reads, out |-> <<>>]

LoopGoesOn(pos, reads, out) == [next |-> pos, done |-> FALSE, reads |-> reads, out |-> out]

(* A primary scan that stays on a zero-length frame.                          *)
scan_step_AckStays(raw, expected_cmd, i) ==
    LET len == ByteAt(raw, i + 3)
        total == 7 + len
    IN  IF ~(i + 3 < Len(raw)) THEN LoopEnds(i, {})
        ELSE IF ~StartsWithPreamble(raw, i) THEN LoopGoesOn(i + 1, {<<i, Len(raw)>>}, <<>>)
        ELSE IF len = 0 THEN LoopGoesOn(i, {<<i, Len(raw)>>, <<i + 3, i + 4>>}, <<>>)
        ELSE IF i + total <= Len(raw)
        THEN LoopGoesOn(i + total, {<<i, Len(raw)>>, <<i + 3, i + 4>>, <<i, i + total>>},
                        OptSeq(InnerOf(Slice(raw, i, i + total), expected_cmd)))
        ELSE LoopEnds(i, {<<i, Len(raw)>>, <<i + 3, i + 4>>})

(* one iteration of `while i + 3 < raw.len()` of
   extract_all_felica_frames_from_pn532_response *)
scan_step(raw, expected_cmd, i) ==
    LET len == ByteAt(raw, i + 3)
        total == 7 + len
    IN  IF ~(i + 3 < Len(raw)) THEN LoopEnds(i, {})
        ELSE IF ~StartsWithPreamble(raw, i) THEN LoopGoesOn(i + 1, {<<i, Len(raw)>>}, <<>>)
        ELSE IF len = 0 THEN LoopGoesOn(i + 1, {<<i, Len(raw)>>, <<i + 3, i + 4>>}, <<>>)
        ELSE IF i + total <= Len(raw)
        THEN LoopGoesOn(i + total, {<<i, Len(raw)>>, <<i + 3, i + 4>>, <<i, i + total>>},
                        OptSeq(InnerOf(Slice(raw, i, i + total), expected_cmd)))
        ELSE LoopEnds(i, {<<i, Len(raw)>>, <<i + 3, i + 4>>})

(* one iteration of `while search_start + 3 <= raw.len()` of
   extract_felica_from_pn532_response; the loop ends with the frame it found *)
extract_step(raw, expected_cmd, search_start) ==
    LET pos == FindPreamble(raw, search_start)
        len == ByteAt(raw, pos + 3)
        total == 7 + len
        searched == {<<search_start, Len(raw)>>}
    IN  IF search_start + 3 > Len(raw) THEN LoopEnds(search_start, {})
        ELSE IF pos < 0 THEN LoopEnds(search_start, searched)
        ELSE IF pos + 3 >= Len(raw) THEN LoopEnds(search_start, searched)
        ELSE IF len = 0 THEN LoopGoesOn(pos + 1, searched \cup {<<pos + 3, pos + 4>>}, <<>>)
        ELSE IF pos + total > Len(raw)
        THEN LoopEnds(search_start, searched \cup {<<pos + 3, pos + 4>>})
        ELSE [next |-> search_start, done |-> TRUE,
              reads |-> searched \cup {<<pos + 3, pos + 4>>, <<pos, pos + total>>},
              out |-> OptSeq(InnerOf(Slice(raw, pos, pos + total), expected_cmd))]

(* one iteration of `while rel_pos + 3 < region.len()` of the frame walk of a
   D5 region *)
region_step(region, expected_cmd, rel_pos) ==
    LET len == ByteAt(region, rel_pos + 3)
        total == 7 + len
        after == rel_pos + total
        next == FindPreamble(region, after)
        reads == {<<rel_pos + 3, rel_pos + 4>>, <<rel_pos, after>>, <<after, Len(region)>>}
        out == OptSeq(InnerOf(Slice(region, rel_pos, after), expected_cmd))
    IN  IF ~(rel_pos + 3 < Len(region)) THEN LoopEnds(rel_pos, {})
        ELSE IF after > Len(region) THEN LoopEnds(rel_pos, {<<rel_pos + 3, rel_pos + 4>>})
        ELSE IF StartsWithPreamble(region, after) THEN LoopGoesOn(after, reads, out)
        ELSE IF next >= 0 THEN LoopGoesOn(next, reads, out)
        ELSE [next |-> after, done |-> TRUE, reads |-> reads, out |-> out]

(* the lengths len for which partition_unframed_targets(rem, .., targets), with
   targets >= 2, calls itself on rem[len..]: from the longest prefix down to
   the first whose rest can be partitioned *)
partition_calls(rem, expected_response, targets) ==
    LET max_len == IF Len(rem) > targets - 1 THEN Len(rem) - (targets - 1) ELSE 0
        passing == {len \in 1..max_len :
                      /\ At(rem, 0) = expected_response
                      /\ IsOk(Frame_encode(Slice(rem, 0, len)))}
        fits == {len \in passing :
                    IsSome(partition_unframed_targets(Suffix(rem, len), expected_response,
                                                      targets - 1))}
    IN  IF fits = {} THEN passing ELSE {len \in passing : len >= Max(fits)}

(* short pieces of a reply: strays, an ACK, frames whole, cut and damaged *)
WalkPieces ==
    {<<0>>, <<213>>, <<213, 75, 1>>, FELICA_PREAMBLE, pn532_ack, Frame_encode(<<1>>).val,
     Frame_encode(<<213, 1, 2>>).val, BadDcs(Frame_encode(<<1, 2>>).val),
     <<0, 0, 255, 5, 251, 1>>, <<0, 0, 255, 255, 1>>}

WalkBuffers == {Flatten(ps) : ps \in SeqsUpTo(WalkPieces, MaxWalkPieces)}

(* the D5 regions of the buffers that hold a preamble and are walked: the
   primary scan found no frame *)
WalkRegions ==
    UNION {{extract_d5_regions(raw)[k] : k \in 1..Len(extract_d5_regions(raw))} :
             raw \in {b \in WalkBuffers : scan_frames(b, 0, 0) = <<>>}}

WalkInit == FrameIdle /\ RespIdle /\ DevIdle /\ LinkIdle /\ ExtIdle /\ MoreIdle

Walking(pos, left, len) ==
    [pos |-> pos, left |-> left, steps |-> 0, done |-> FALSE, reads |-> {}, len |-> len,
     out |-> <<>>]

(* a loop over a buffer is entered *)
WalkStart ==
    /\ hCall = "none"
    /\ \/ \E raw \in WalkBuffers :
            /\ hCall' \in {"scan", "extract"}
            /\ hArgs' = [buf |-> raw, cmd |-> 0, start |-> 0]
            /\ hOut' = Walking(0, 0, Len(raw))
       \/ \E region \in WalkRegions :
            /\ FindPreamble(region, 0) >= 0
            /\ hCall' = "region"
            /\ hArgs' = [buf |-> region, cmd |-> 0, start |-> FindPreamble(region, 0)]
            /\ hOut' = Walking(FindPreamble(region, 0), 0, Len(region))
    /\ EncodeKept

(* the step of the loop that hCall names *)
walk_step(loop, buf, cmd, pos) ==
    CASE loop = "scan" -> scan_step(buf, cmd, pos)
      [] loop = "extract" -> extract_step(buf, cmd, pos)
      [] loop = "region" -> region_step(buf, cmd, pos)

(* one iteration of the loop *)
WalkStep ==
    /\ hCall \in {"scan", "extract", "region"}
    /\ ~hOut.done
    /\ hOut.steps < MaxWalkSteps
    /\ \E s \in {walk_step(hCall, hArgs.buf, hArgs.cmd, hOut.pos)} :
          hOut' = [hOut EXCEPT !.pos = s.next, !.steps = @ + 1, !.done = s.done,
                               !.reads = s.reads, !.out = @ \o s.out]
    /\ UNCHANGED <<hCall, hArgs>>
    /\ EncodeKept

(* partition_unframed_targets is called on a remainder *)
PartitionStart ==
    /\ hCall = "none"
    /\ \E in \in PartitionInputs :
          /\ hCall' = "partition"
          /\ hArgs' = [buf |-> in[1], cmd |-> in[2], start |-> 0]
          /\ hOut' = Walking(0, in[3], Len(in[1]))
    /\ EncodeKept

(* the call returns, or it calls itself on a shorter remainder for one target
   less *)
PartitionStep ==
    /\ hCall = "partition"
    /\ ~hOut.done
    /\ hOut.steps < MaxWalkSteps
    /\ LET rem == Suffix(hArgs.buf, hOut.pos)
           lens == IF hOut.left >= 2 THEN partition_calls(rem, hArgs.cmd, hOut.left) ELSE {}
       IN  \/ /\ lens = {}
              /\ hOut' = [hOut EXCEPT !.steps = @ + 1, !.done = TRUE, !.len = Len(rem),
                                      !.reads = IF rem # <<>> /\ hOut.left >= 1
                                                THEN {<<0, 1>>} ELSE {}]
           \/ \E len \in lens :
                 hOut' = [hOut EXCEPT !.pos = @ + len, !.left = @ - 1, !.steps = @ + 1,
                                      !.len = Len(rem),
                                      !.reads = {<<0, len>>, <<len, Len(rem)>>}]
    /\ UNCHANGED <<hCall, hArgs>>
    /\ EncodeKept

WalkNext == WalkStart \/ WalkStep \/ PartitionStart \/ PartitionStep

SpecWalk == WalkInit /\ [][WalkNext]_vars

WalkLoops == {"scan", "extract", "region", "partition"}

(* every index expression of the last iteration lies within the buffer, and so
   does the position *)
WalkInBounds ==
    hCall \in WalkLoops =>
        /\ \A r \in hOut.reads : 0 <= r[1] /\ r[1] <= r[2] /\ r[2] <= hOut.len
        /\ hOut.pos \in 0..Len(hArgs.buf)
        /\ hOut.left >= 0

(* the frames of a finished walk are those of the extractor's loop *)
WalkAgrees ==
    (hCall \in WalkLoops /\ hOut.done) =>
        CASE hCall = "scan" -> hOut.out = scan_frames(hArgs.buf, hArgs.cmd, 0)
          [] hCall = "extract" -> hOut.out = OptSeq(extract_scan(hArgs.buf, hArgs.cmd, 0))
          [] hCall = "region" ->
                hOut.out = region_frames(hArgs.buf, hArgs.cmd, hArgs.start).frames
          [] hCall = "partition" -> TRUE

(* an iteration ends its loop or moves the position forward; a partition call
   that makes another has one target less *)
WalkAdvances ==
    (hCall \in WalkLoops /\ hCall' = hCall) =>
        /\ hOut'.steps = hOut.steps + 1
        /\ hOut'.done \/ hOut'.pos > hOut.pos
        /\ hOut'.pos >= hOut.pos
        /\ (hCall = "partition" /\ ~hOut'.done) => hOut'.left < hOut.left

(* the iterations made are at most one more than the distance covered, which
   is at most the length of the buffer, and no loop is cut short by the bound
   on the steps *)
WalkBounded ==
    hCall \in WalkLoops =>
        /\ hOut.steps <= (hOut.pos - hArgs.start) + 1
        /\ hOut.steps <= Len(hArgs.buf) + 1
        /\ ~hOut.done => hOut.steps < MaxWalkSteps

(* C40: the scans of extract_all_felica_frames_from_pn532_response and of
   extract_felica_from_pn532_response end on every buffer: each iteration of
   the primary scan, of the frame walk of a region and of the partition search
   ends the loop or moves its position forward over a shorter rest, so that a
   loop makes at most one iteration more than the buffer has bytes, and every
   index read lies within the buffer.                                         *)
C40_ScansTerminate ==
    /\ [](WalkInBounds /\ WalkBounded /\ WalkAgrees)
    /\ [][WalkAdvances]_vars

(* the primary scan steps over an ACK byte by byte, takes the frame after it
   whole and ends on the stray byte behind it *)
C40_Witness ==
    /\ hCall = "scan"
    /\ hArgs.buf = pn532_ack \o Frame_encode(<<1>>).val \o <<0>>
    /\ hOut.done
    /\ hOut.pos = 14
    /\ hOut.steps = 8
    /\ hOut.out = <<Frame_encode(<<1>>).val>>
=============================================================================
